---- MODULE Spec2Model ----
(***************************************************************************)
(* C-Wiper: state coordination, controllers, deletion executor and path    *)
(* safety validator, modelled from src/src/controllers and src/src/core.   *)
(*                                                                         *)
(* The module holds several specifications over one set of variables:      *)
(*   SpecSM     StateManager alone (transition_to, request_cancel, ...)    *)
(*   SpecCtl    the three controllers, their callers and worker threads    *)
(*   SpecClean  one run of CleanerExecutor.clean over a file list          *)
(*   SpecSec    SecurityLayer.is_safe_to_delete over a Windows file tree   *)
(* A specification leaves the variables of the other ones unchanged.       *)
(***************************************************************************)
EXTENDS Naturals, Integers, Sequences, FiniteSets, TLC

VARIABLES
    state,          \* StateManager._state
    cancel_flag,    \* StateManager._cancel_flag
    result_queue,   \* StateManager._result_queue
    sm_last,        \* the last StateManager call and what it returned (history)
    confirmed,      \* CleanController._confirmed
    ever_confirmed, \* confirm_clean has been called at least once (history)
    latch,          \* the controllers' completion events, by kind of operation
    engine_cancelled, \* CoreScanner / CleanerExecutor / AppAnalyzer ._cancelled
    callers,        \* the calling threads: the call each is in and its position
    ncalls,         \* the number of controller calls begun so far
    workers,        \* the worker threads, by the number of the call that started them
    cl_files,       \* CleanerExecutor.clean: the list it was given (sizes)
    cl_fates,       \* what the file system holds for each file of the list
    cl_pc,          \* CleanerExecutor.clean: where the call is
    cl_idx,         \* CleanerExecutor.clean: files handled so far (enumerate's index)
    cl_result,      \* CleanerExecutor.clean: the CleanResult being built
    cl_events,      \* the clean events published, in order
    cl_log,         \* per file handled: the safety verdict and the delete call (history)
    sec_cwd,        \* the process's current directory on drive C:
    sec_protected,  \* SecurityLayer.HARDCODED_PROTECTED (add_protected_path appends)
    sec_path,       \* the path is_safe_to_delete is called with
    sec_whitelist,  \* its whitelist_extensions argument
    sec_pc,         \* "init" before the call, "done" after it
    sec_result,     \* the (is_safe, reason) it returned
    re_rules,       \* RuleEngine.rules, the list both engines were loaded with
    match_cache,    \* OptimizedRuleEngine.match_cache, in dict order; stamp: insertion number (history)
    re_inserts,     \* insertions into match_cache so far (history)
    re_last,        \* the last match_file call and what both engines returned (history)
    sc_targets,     \* CoreScanner.scan: the target list
    sc_pc,          \* where the scan generator and the worker around it are
    sc_t,           \* the loop over the targets: the number of the current target
    sc_i,           \* _scan_directory: the next item of rglob
    sc_files,       \* scan_single_target: files, the entries found so far
    sc_pending,     \* the ScanResult being yielded
    sc_resume,      \* where the generator goes on after the yield
    sc_yielded,     \* the results yielded so far (history)
    sc_results,     \* ScanController._results
    sc_events,      \* the scan events published, in order
    sc_cancel_pc,   \* where a cancel_scan call is
    sc_raced,       \* the racing start_clean has made its transition
    sc_cut,         \* a traversal was ended by a cancel request (history)
    tr_tree,        \* scan_single_target: the directory tree under the target
    tr_variant,     \* which scanner class runs: "baseline" or "optimized"
    tr_pc,          \* scan_single_target: "init" or "done"
    tr_result,      \* the ScanResult scan_single_target returned
    cf_rules,       \* the rule list of the ScanController's rule engine
    cf_tiers,       \* the risk_level of each rule of cf_rules
    cf_results,     \* the ScanResults the scanner yields to the worker
    cf_k,           \* how many of them the worker has handled and stored
    cf_matched,     \* ScanController._matched_files
    eb_subscribers, \* EventBus._subscribers: event type -> list of callbacks
    eb_pc,          \* EventBus.publish: "idle" or "deliver"
    eb_i,           \* EventBus.publish: position in the copied subscriber list
    eb_last,        \* the publish call under way or last made
    pv_files,       \* the file list preview_clean is called with
    pv_history,     \* the preview_clean calls made: file list and statistics returned
    pv_deleted,     \* the paths removed from the file system by preview_clean calls
    pv_start,       \* StateManager's state and cancel flag before the first call
    ld_config,      \* what RuleEngine.config_path holds when load_rules is called
    ld_pc,          \* load_rules: "init" or "done"
    ld_rules,       \* RuleEngine.rules, by rule id
    ld_raised,      \* load_rules ended with an exception
    mg_clusters,    \* _merge_clusters: the list of clusters passed
    mg_pc,          \* _merge_clusters: "init" or "done"
    mg_merged,      \* _merge_clusters: the merged dictionary, in insertion order
    ch_cache,       \* ScanCache.cache: the paths that have an entry
    ch_unsaved,     \* the paths set since the cache file was last written (history)
    cs_preview_files, \* CleanController._preview_files, as a set of file names
    cs_log,         \* the calls one client made on the CleanController, in order
    ed_index,       \* the class of OptimizedRuleEngine.rule_index: "optimized" or "base"
    ed_edits,       \* the add_rule and remove_rule calls made
    ed_last,        \* the last match_file call on the edited engine
    si_class,       \* the singleton class constructed: "StateManager" or "EventBus"
    si_instance,    \* cls._instance: the object (0 for None) and how many of its fields are set
    si_made,        \* the number of objects super().__new__ has made
    si_lock,        \* the holder of cls._lock, "none" when free
    si_pc,          \* where each constructing thread is in __new__
    si_got          \* what __new__ returned to each thread, as it was at the return

smVars == <<state, cancel_flag, result_queue, sm_last>>

ctlVars == <<confirmed, ever_confirmed, latch, engine_cancelled, callers, ncalls,
             workers>>

cleanVars == <<cl_files, cl_fates, cl_pc, cl_idx, cl_result, cl_events, cl_log>>

secVars == <<sec_cwd, sec_protected, sec_path, sec_whitelist, sec_pc, sec_result>>

ruleVars == <<re_rules, match_cache, re_inserts, re_last>>

scanVars == <<sc_targets, sc_pc, sc_t, sc_i, sc_files, sc_pending, sc_resume, sc_yielded, sc_results, sc_events, sc_cancel_pc, sc_raced, sc_cut>>

treeVars == <<tr_tree, tr_variant, tr_pc, tr_result>>

classifyVars == <<cf_rules, cf_tiers, cf_results, cf_k, cf_matched>>

busVars == <<eb_subscribers, eb_pc, eb_i, eb_last>>

previewVars == <<pv_files, pv_history, pv_deleted, pv_start>>

loadVars == <<ld_config, ld_pc, ld_rules, ld_raised>>

mergeVars == <<mg_clusters, mg_pc, mg_merged>>

cacheVars == <<ch_cache, ch_unsaved>>

sessionVars == <<cs_preview_files, cs_log>>

editVars == <<ed_index, ed_edits, ed_last>>

singletonVars == <<si_class, si_instance, si_made, si_lock, si_pc, si_got>>

\* What the actions of one specification leave alone.
nonSmVars == <<ctlVars, cleanVars, secVars, ruleVars, scanVars, treeVars, classifyVars, busVars, previewVars, loadVars, mergeVars, cacheVars, sessionVars, editVars, singletonVars>>
nonCtlVars == <<result_queue, sm_last, cleanVars, secVars, ruleVars, scanVars, treeVars, classifyVars, busVars, previewVars, loadVars, mergeVars, cacheVars, sessionVars, editVars, singletonVars>>
nonCleanVars == <<state, result_queue, sm_last, confirmed, ever_confirmed, latch,
                  callers, ncalls, workers, secVars, ruleVars, scanVars, treeVars, classifyVars, busVars, previewVars, loadVars, mergeVars, cacheVars, sessionVars, editVars, singletonVars>>
nonSecVars == <<smVars, ctlVars, cleanVars, ruleVars, scanVars, treeVars, classifyVars, busVars, previewVars, loadVars, mergeVars, cacheVars, sessionVars, editVars, singletonVars>>
nonRuleVars == <<smVars, ctlVars, cleanVars, secVars, scanVars, treeVars, classifyVars, busVars, previewVars, loadVars, mergeVars, cacheVars, sessionVars, editVars, singletonVars>>
nonScanVars == <<smVars, ctlVars, cleanVars, secVars, ruleVars, treeVars, classifyVars, busVars, previewVars, loadVars, mergeVars, cacheVars, sessionVars, editVars, singletonVars>>
nonSingletonVars == <<smVars, ctlVars, cleanVars, secVars, ruleVars, scanVars, treeVars, classifyVars, busVars, previewVars, loadVars, mergeVars, cacheVars, sessionVars, editVars>>
nonEditVars == <<smVars, ctlVars, cleanVars, secVars, scanVars, treeVars, classifyVars, busVars, previewVars, loadVars, mergeVars, cacheVars, sessionVars, singletonVars>>
nonSessionVars == <<cleanVars, secVars, ruleVars, scanVars, treeVars, classifyVars, busVars, previewVars, loadVars, mergeVars, cacheVars, editVars, singletonVars>>
nonSmCtlScanVars == <<cleanVars, secVars, ruleVars, treeVars, classifyVars, busVars, previewVars, loadVars, mergeVars, cacheVars, sessionVars, editVars, singletonVars>>
nonCacheVars == <<smVars, ctlVars, cleanVars, secVars, ruleVars, scanVars, treeVars, classifyVars, busVars, previewVars, loadVars, mergeVars, sessionVars, editVars, singletonVars>>
nonMergeVars == <<smVars, ctlVars, cleanVars, secVars, ruleVars, scanVars, treeVars, classifyVars, busVars, previewVars, loadVars, cacheVars, sessionVars, editVars, singletonVars>>
nonLoadVars == <<smVars, ctlVars, cleanVars, secVars, ruleVars, scanVars, treeVars, classifyVars, busVars, previewVars, mergeVars, cacheVars, sessionVars, editVars, singletonVars>>
nonPreviewVars == <<cleanVars, secVars, ruleVars, scanVars, treeVars, classifyVars, busVars, loadVars, mergeVars, cacheVars, sessionVars, editVars, singletonVars>>
nonBusVars == <<smVars, ctlVars, cleanVars, secVars, ruleVars, scanVars, treeVars, classifyVars, previewVars, loadVars, mergeVars, cacheVars, sessionVars, editVars, singletonVars>>
nonClassifyVars == <<smVars, ctlVars, cleanVars, secVars, ruleVars, scanVars, treeVars, busVars, previewVars, loadVars, mergeVars, cacheVars, sessionVars, editVars, singletonVars>>
nonTreeVars == <<smVars, ctlVars, cleanVars, secVars, ruleVars, scanVars, classifyVars, busVars, previewVars, loadVars, mergeVars, cacheVars, sessionVars, editVars, singletonVars>>

vars == <<state, cancel_flag, result_queue, sm_last, confirmed, ever_confirmed,
          latch, engine_cancelled, callers, ncalls, workers,
          cl_files, cl_fates, cl_pc, cl_idx, cl_result, cl_events, cl_log,
          sec_cwd, sec_protected, sec_path, sec_whitelist, sec_pc, sec_result,
          re_rules, match_cache, re_inserts, re_last,
          sc_targets, sc_pc, sc_t, sc_i, sc_files, sc_pending, sc_resume, sc_yielded, sc_results, sc_events, sc_cancel_pc, sc_raced, sc_cut,
          tr_tree, tr_variant, tr_pc, tr_result,
          cf_rules, cf_tiers, cf_results, cf_k, cf_matched,
          eb_subscribers, eb_pc, eb_i, eb_last,
          pv_files, pv_history, pv_deleted, pv_start,
          ld_config, ld_pc, ld_rules, ld_raised,
          mg_clusters, mg_pc, mg_merged,
          ch_cache, ch_unsaved,
          cs_preview_files, cs_log,
          ed_index, ed_edits, ed_last,
          si_class, si_instance, si_made, si_lock, si_pc, si_got>>

(***************************************************************************)
(* StateManager  (src/src/controllers/state_manager.py)                    *)
(***************************************************************************)

\* SystemState: the enum's values.
SystemState == {"idle", "scanning", "cleaning", "analyzing"}

\* A mutation of the transition table: Analyzing may go straight to Cleaning.
VALID_TRANSITIONS_Loose(s) ==
    CASE s = "idle"      -> {"scanning", "analyzing", "cleaning"}
      [] s = "scanning"  -> {"idle", "cleaning"}
      [] s = "analyzing" -> {"idle", "cleaning"}
      [] s = "cleaning"  -> {"idle"}
      [] OTHER           -> {}

\* StateManager.VALID_TRANSITIONS; .get(state, []) gives {} for anything else.
VALID_TRANSITIONS(s) ==
    CASE s = "idle"      -> {"scanning", "analyzing", "cleaning"}
      [] s = "scanning"  -> {"idle", "cleaning"}
      [] s = "analyzing" -> {"idle"}
      [] s = "cleaning"  -> {"idle"}
      [] OTHER           -> {}

\* A mutation of transition_to: the cancel flag is not reset on success.
transition_to_KeepFlag(s, f, to) ==
    IF to \in VALID_TRANSITIONS(s)
    THEN [state |-> to, cancel_flag |-> f, raised |-> FALSE, exc |-> <<>>]
    ELSE [state |-> s, cancel_flag |-> f, raised |-> TRUE, exc |-> <<s, to>>]

\* StateManager.transition_to, run under _state_lock: the new state and cancel
\* flag, and whether StateTransitionError(from, to) was raised.
transition_to(s, f, to) ==
    IF to \in VALID_TRANSITIONS(s)
    THEN [state |-> to, cancel_flag |-> FALSE, raised |-> FALSE, exc |-> <<>>]
    ELSE [state |-> s, cancel_flag |-> f, raised |-> TRUE, exc |-> <<s, to>>]

\* StateManager.request_cancel: the flag after the call.
request_cancel(f) == TRUE

\* StateManager.reset_cancel_flag: the flag after the call.
reset_cancel_flag(f) == FALSE

\* Bound on the number of results waiting in the result queue.
MaxQueue == 2

\* What the operations put into the result queue.
ResultKinds == {"scan_result", "clean_result"}

NoCall == [op |-> "init", arg |-> "none", from |-> "idle", flag0 |-> FALSE,
           raised |-> FALSE, exc |-> <<>>]


\* A direct call of transition_to(to), for every target state.
SM_TransitionTo(to) ==
    LET r == transition_to(state, cancel_flag, to) IN
    /\ state' = r.state
    /\ cancel_flag' = r.cancel_flag
    /\ sm_last' = [op |-> "transition_to", arg |-> to, from |-> state,
                   flag0 |-> cancel_flag, raised |-> r.raised, exc |-> r.exc]
    /\ UNCHANGED result_queue
    /\ UNCHANGED nonSmVars

\* A direct call of request_cancel().
SM_RequestCancel ==
    /\ cancel_flag' = request_cancel(cancel_flag)
    /\ sm_last' = [op |-> "request_cancel", arg |-> "none", from |-> state,
                   flag0 |-> cancel_flag, raised |-> FALSE, exc |-> <<>>]
    /\ UNCHANGED <<state, result_queue>>
    /\ UNCHANGED nonSmVars

\* A direct call of reset_cancel_flag().
SM_ResetCancelFlag ==
    /\ cancel_flag' = reset_cancel_flag(cancel_flag)
    /\ sm_last' = [op |-> "reset_cancel_flag", arg |-> "none", from |-> state,
                   flag0 |-> cancel_flag, raised |-> FALSE, exc |-> <<>>]
    /\ UNCHANGED <<state, result_queue>>
    /\ UNCHANGED nonSmVars

\* StateManager.put_result: appends to the (unbounded) queue; the model stops
\* producers at MaxQueue waiting results.
SM_PutResult(r) ==
    /\ Len(result_queue) < MaxQueue
    /\ result_queue' = Append(result_queue, r)
    /\ sm_last' = [op |-> "put_result", arg |-> r, from |-> state,
                   flag0 |-> cancel_flag, raised |-> FALSE, exc |-> <<>>]
    /\ UNCHANGED <<state, cancel_flag>>
    /\ UNCHANGED nonSmVars

\* StateManager.get_result: takes the oldest result; blocks while there is none.
SM_GetResult ==
    /\ result_queue # <<>>
    /\ result_queue' = Tail(result_queue)
    /\ sm_last' = [op |-> "get_result", arg |-> Head(result_queue), from |-> state,
                   flag0 |-> cancel_flag, raised |-> FALSE, exc |-> <<>>]
    /\ UNCHANGED <<state, cancel_flag>>
    /\ UNCHANGED nonSmVars

SM_Next ==
    \/ \E to \in SystemState : SM_TransitionTo(to)
    \/ SM_RequestCancel
    \/ SM_ResetCancelFlag
    \/ \E r \in ResultKinds : SM_PutResult(r)
    \/ SM_GetResult

(***************************************************************************)
(* Controllers  (src/src/controllers/{scan,clean,analysis}_controller.py)  *)
(*                                                                         *)
(* Callers are the threads of the presentation layer; each start_* or      *)
(* cancel_* call is a sequence of steps, one per access to shared state    *)
(* (StateManager under _state_lock, a controller's fields under its _lock).*)
(* A worker thread is named by the number of the call that started it.     *)
(* The engine's run (CoreScanner.scan consumed by the worker's loop,       *)
(* CleanerExecutor.clean, AppAnalyzer.analyze) is one step with every      *)
(* outcome the worker's code distinguishes.                                *)
(***************************************************************************)

\* The calling threads.
Callers == {"t1", "t2"}

\* Bound on the number of controller calls made in one behaviour.
MaxCalls == 2

CallIds == 1..MaxCalls

\* The three kinds of operation, one controller each.
Kinds == {"scan", "clean", "analysis"}

\* The SystemState a start call of each kind asks for.
StateOf(kind) ==
    CASE kind = "scan"     -> "scanning"
      [] kind = "clean"    -> "cleaning"
      [] kind = "analysis" -> "analyzing"

NoWorker == [kind |-> "none", req |-> TRUE, pc |-> "none", failed |-> FALSE,
             evs |-> <<>>, to_idle |-> FALSE, latched |-> FALSE]

IdleCaller == [op |-> "none", kind |-> "none", pc |-> "ready", req |-> TRUE,
               ret |-> "none", moved |-> FALSE, id |-> 0]

\* A mutation of the confirmation check: it lets every call through.
confirmation_ok_Dropped(require_confirmation, conf) == TRUE

\* start_clean's "double confirmation" check: the call goes on when no
\* confirmation is required or _confirmed is set.
confirmation_ok(require_confirmation, conf) ==
    ~require_confirmation \/ conf

\* start_scan / start_clean / start_analysis, up to the first return: the
\* is_idle() check, then the empty-list check (scan and clean).
Call_Start(c, kind, empty, req) ==
    /\ callers[c].pc = "ready"
    /\ ncalls < MaxCalls
    /\ ncalls' = ncalls + 1
    /\ callers' = [callers EXCEPT ![c] =
          [op |-> "start", kind |-> kind, req |-> req, moved |-> FALSE,
           id |-> ncalls + 1,
           pc  |-> IF state # "idle" \/ empty THEN "ready"
                   ELSE IF kind = "clean" THEN "confirm" ELSE "clear",
           ret |-> IF state # "idle" THEN "false_state"
                   ELSE IF empty THEN "false_empty" ELSE "none"]]
    /\ UNCHANGED <<state, cancel_flag, confirmed, ever_confirmed, latch,
                   engine_cancelled, workers>>
    /\ UNCHANGED nonCtlVars

\* start_clean: the confirmation check, under the controller's _lock.
Call_CheckConfirmed(c) ==
    /\ callers[c].pc = "confirm"
    /\ callers' = [callers EXCEPT ![c] =
          IF confirmation_ok(callers[c].req, confirmed)
          THEN [@ EXCEPT !.pc = "clear"]
          ELSE [@ EXCEPT !.pc = "ready", !.ret = "false_unconfirmed"]]
    /\ UNCHANGED <<state, cancel_flag, confirmed, ever_confirmed, latch,
                   engine_cancelled, ncalls, workers>>
    /\ UNCHANGED nonCtlVars

\* start_*: the previous results are dropped and the completion event cleared.
Call_Clear(c) ==
    /\ callers[c].pc = "clear"
    /\ latch' = [latch EXCEPT ![callers[c].kind] = FALSE]
    /\ callers' = [callers EXCEPT ![c].pc = "trans"]
    /\ UNCHANGED <<state, cancel_flag, confirmed, ever_confirmed,
                   engine_cancelled, ncalls, workers>>
    /\ UNCHANGED nonCtlVars

\* start_*: transition_to(kind's state); on success the worker thread is
\* started and the call returns True, on StateTransitionError the except
\* branch is entered.
Call_Transition(c) ==
    LET r == transition_to(state, cancel_flag, StateOf(callers[c].kind)) IN
    /\ callers[c].pc = "trans"
    /\ state' = r.state
    /\ cancel_flag' = r.cancel_flag
    /\ IF r.raised
       THEN /\ callers' = [callers EXCEPT ![c].pc = "handler"]
            /\ UNCHANGED workers
       ELSE /\ callers' = [callers EXCEPT ![c].pc = "ready", ![c].ret = "true",
                                          ![c].moved = TRUE]
            /\ workers' = [workers EXCEPT ![callers[c].id] =
                  [NoWorker EXCEPT !.kind = callers[c].kind, !.req = callers[c].req,
                                  !.pc = "engine"]]
    /\ UNCHANGED <<confirmed, ever_confirmed, latch, engine_cancelled, ncalls>>
    /\ UNCHANGED nonCtlVars

\* start_*: the except branch, transition_to(IDLE) and return False; a second
\* StateTransitionError leaves the call through the exception.
Call_Handler(c) ==
    LET r == transition_to(state, cancel_flag, "idle") IN
    /\ callers[c].pc = "handler"
    /\ state' = r.state
    /\ cancel_flag' = r.cancel_flag
    /\ callers' = [callers EXCEPT ![c] =
          IF r.raised
          THEN [@ EXCEPT !.pc = "ready", !.ret = "raised"]
          ELSE [@ EXCEPT !.pc = "ready", !.ret = "false_exc", !.moved = TRUE]]
    /\ UNCHANGED <<confirmed, ever_confirmed, latch, engine_cancelled, ncalls,
                   workers>>
    /\ UNCHANGED nonCtlVars

\* cancel_scan / cancel_clean / cancel_analysis: the is_<kind>() check.
Call_CancelCheck(c, kind) ==
    /\ callers[c].pc = "ready"
    /\ ncalls < MaxCalls
    /\ ncalls' = ncalls + 1
    /\ callers' = [callers EXCEPT ![c] =
          [op |-> "cancel", kind |-> kind, req |-> TRUE, moved |-> FALSE,
           id |-> ncalls + 1,
           pc  |-> IF state = StateOf(kind) THEN "cancel_set" ELSE "ready",
           ret |-> IF state = StateOf(kind) THEN "none" ELSE "false_state"]]
    /\ UNCHANGED <<state, cancel_flag, confirmed, ever_confirmed, latch,
                   engine_cancelled, workers>>
    /\ UNCHANGED nonCtlVars

\* cancel_*: state_manager.request_cancel(), then the engine's cancel(), which
\* sets its _cancelled and calls request_cancel() again.
Call_CancelSet(c) ==
    /\ callers[c].pc = "cancel_set"
    /\ cancel_flag' = request_cancel(request_cancel(cancel_flag))
    /\ engine_cancelled' = [engine_cancelled EXCEPT ![callers[c].kind] = TRUE]
    /\ callers' = [callers EXCEPT ![c].pc = "ready", ![c].ret = "true"]
    /\ UNCHANGED <<state, confirmed, ever_confirmed, latch, ncalls, workers>>
    /\ UNCHANGED nonCtlVars

\* CleanController.confirm_clean.
Call_ConfirmClean(c) ==
    /\ callers[c].pc = "ready"
    /\ ncalls < MaxCalls
    /\ ncalls' = ncalls + 1
    /\ confirmed' = TRUE
    /\ ever_confirmed' = TRUE
    /\ callers' = [callers EXCEPT ![c] =
          [IdleCaller EXCEPT !.op = "confirm_clean", !.kind = "clean", !.ret = "true",
                             !.id = ncalls + 1]]
    /\ UNCHANGED <<state, cancel_flag, latch, engine_cancelled, workers>>
    /\ UNCHANGED nonCtlVars

\* CleanController.preview_clean: stores the list and withdraws the
\* confirmation; the statistics it returns read no shared state.
Call_PreviewClean(c) ==
    /\ callers[c].pc = "ready"
    /\ ncalls < MaxCalls
    /\ ncalls' = ncalls + 1
    /\ confirmed' = FALSE
    /\ callers' = [callers EXCEPT ![c] =
          [IdleCaller EXCEPT !.op = "preview_clean", !.kind = "clean", !.ret = "stats",
                             !.id = ncalls + 1]]
    /\ UNCHANGED <<state, cancel_flag, ever_confirmed, latch, engine_cancelled,
                   workers>>
    /\ UNCHANGED nonCtlVars

\* How a run of the engine can end, as the worker's code tells the cases apart.
\*   scan:  CoreScanner.scan consumed by _scan_worker's loop
\*   clean: CleanerExecutor.clean
\*   analysis: AppAnalyzer.analyze, which catches its own exceptions and
\*          returns [] ("internal_error")
EngineOutcomes(kind) ==
    CASE kind = "scan"     -> {"ok", "cancelled_engine", "cancelled_worker", "raise"}
      [] kind = "clean"    -> {"ok", "errors", "cancelled_engine", "raise"}
      [] kind = "analysis" -> {"ok", "cancelled_engine", "internal_error", "raise"}

\* Whether the outcome can happen now: a cancellation is seen by the engine when
\* its _cancelled or the StateManager's flag is set, by the scan worker's own
\* loop when the StateManager's flag is set.
EnginePossible(kind, outcome) ==
    CASE outcome = "cancelled_engine" -> cancel_flag \/ engine_cancelled[kind]
      [] outcome = "cancelled_worker" -> cancel_flag
      [] OTHER -> TRUE

\* The events published while the engine runs, in order.
\*   CoreScanner.scan: scan_started; per target scan_progress; on a cancel seen
\*     at the head of its loop scan_failed and break; scan_completed after the
\*     loop. _scan_worker publishes scan_failed and leaves the loop (the
\*     generator is not resumed) when it sees the cancel itself.
\*   CleanerExecutor.clean: clean_started, clean_progress, then clean_completed
\*     or (errors, cancel) clean_failed.
\*   AppAnalyzer.analyze publishes nothing.
EngineEvents(kind, outcome) ==
    CASE kind = "scan" /\ outcome = "ok" -> <<"started", "progress", "completed">>
      [] kind = "scan" /\ outcome = "cancelled_engine" -> <<"started", "failed", "completed">>
      [] kind = "scan" /\ outcome = "cancelled_worker" -> <<"started", "failed">>
      [] kind = "scan" /\ outcome = "raise" -> <<"started">>
      [] kind = "clean" /\ outcome = "ok" -> <<"started", "progress", "completed">>
      [] kind = "clean" /\ outcome = "errors" -> <<"started", "progress", "failed">>
      [] kind = "clean" /\ outcome = "cancelled_engine" -> <<"started", "failed">>
      [] kind = "clean" /\ outcome = "raise" -> <<"started">>
      [] OTHER -> <<>>

\* An exception ended the engine's run (raised to the worker, or swallowed by
\* AppAnalyzer.analyze).
EngineFailed(outcome) == outcome \in {"raise", "internal_error"}

\* The event the worker publishes on its normal path after the completion
\* event is set: _scan_worker and _analysis_worker publish *_COMPLETED,
\* _clean_worker only builds its report.
CompletionEvents(kind) == IF kind = "clean" THEN <<>> ELSE <<"completed">>

\* The event the worker's except branch publishes: *_FAILED with a reason for
\* scan and analysis, none for clean (it stores a failed CleanResult).
FailureEvents(kind) == IF kind = "clean" THEN <<>> ELSE <<"failed">>

\* The worker's call of the engine, to its return or its exception.
Worker_Engine(w, outcome) ==
    /\ workers[w].pc = "engine"
    /\ outcome \in EngineOutcomes(workers[w].kind)
    /\ EnginePossible(workers[w].kind, outcome)
    /\ workers' = [workers EXCEPT ![w] =
          [@ EXCEPT !.pc = IF outcome = "raise" THEN "h_to_idle" ELSE "to_idle",
                    !.failed = EngineFailed(outcome),
                    !.evs = EngineEvents(workers[w].kind, outcome)]]
    /\ UNCHANGED <<state, cancel_flag, confirmed, ever_confirmed, latch,
                   engine_cancelled, callers, ncalls>>
    /\ UNCHANGED nonCtlVars

\* The worker's normal path: transition_to(IDLE); a StateTransitionError is
\* caught by the worker's except branch.
Worker_ToIdle(w) ==
    LET r == transition_to(state, cancel_flag, "idle") IN
    /\ workers[w].pc = "to_idle"
    /\ state' = r.state
    /\ cancel_flag' = r.cancel_flag
    /\ workers' = [workers EXCEPT ![w] =
          IF r.raised
          THEN [@ EXCEPT !.pc = "h_to_idle", !.failed = TRUE]
          ELSE [@ EXCEPT !.pc = "set_latch", !.to_idle = TRUE]]
    /\ UNCHANGED <<confirmed, ever_confirmed, latch, engine_cancelled, callers,
                   ncalls>>
    /\ UNCHANGED nonCtlVars

\* The worker's normal path: the completion event is set.
Worker_SetLatch(w) ==
    /\ workers[w].pc = "set_latch"
    /\ latch' = [latch EXCEPT ![workers[w].kind] = TRUE]
    /\ workers' = [workers EXCEPT ![w].pc = "publish", ![w].latched = TRUE]
    /\ UNCHANGED <<state, cancel_flag, confirmed, ever_confirmed,
                   engine_cancelled, callers, ncalls>>
    /\ UNCHANGED nonCtlVars

\* The worker's normal path: the completion event is published and the
\* thread ends.
Worker_Publish(w) ==
    /\ workers[w].pc = "publish"
    /\ workers' = [workers EXCEPT ![w].pc = "done",
                      ![w].evs = @ \o CompletionEvents(workers[w].kind)]
    /\ UNCHANGED <<state, cancel_flag, confirmed, ever_confirmed, latch,
                   engine_cancelled, callers, ncalls>>
    /\ UNCHANGED nonCtlVars

\* The worker's except branch: transition_to(IDLE); a StateTransitionError
\* raised here is caught by nothing and ends the thread.
Worker_HandlerToIdle(w) ==
    LET r == transition_to(state, cancel_flag, "idle") IN
    /\ workers[w].pc = "h_to_idle"
    /\ state' = r.state
    /\ cancel_flag' = r.cancel_flag
    /\ workers' = [workers EXCEPT ![w] =
          IF r.raised
          THEN [@ EXCEPT !.pc = "dead"]
          ELSE [@ EXCEPT !.pc = "h_set_latch", !.to_idle = TRUE]]
    /\ UNCHANGED <<confirmed, ever_confirmed, latch, engine_cancelled, callers,
                   ncalls>>
    /\ UNCHANGED nonCtlVars

\* The worker's except branch: the completion event is set.
Worker_HandlerSetLatch(w) ==
    /\ workers[w].pc = "h_set_latch"
    /\ latch' = [latch EXCEPT ![workers[w].kind] = TRUE]
    /\ workers' = [workers EXCEPT ![w].pc = "h_publish", ![w].latched = TRUE]
    /\ UNCHANGED <<state, cancel_flag, confirmed, ever_confirmed,
                   engine_cancelled, callers, ncalls>>
    /\ UNCHANGED nonCtlVars

\* The worker's except branch: the failure is published (scan, analysis) or
\* stored as the result (clean), and the thread ends.
Worker_HandlerPublish(w) ==
    /\ workers[w].pc = "h_publish"
    /\ workers' = [workers EXCEPT ![w].pc = "done",
                      ![w].evs = @ \o FailureEvents(workers[w].kind)]
    /\ UNCHANGED <<state, cancel_flag, confirmed, ever_confirmed, latch,
                   engine_cancelled, callers, ncalls>>
    /\ UNCHANGED nonCtlVars

Ctl_Next ==
    \/ \E c \in Callers, kind \in Kinds, empty \in BOOLEAN, req \in BOOLEAN :
          /\ kind = "analysis" => ~empty
          /\ kind # "clean" => req
          /\ Call_Start(c, kind, empty, req)
    \/ \E c \in Callers : Call_CheckConfirmed(c)
    \/ \E c \in Callers : Call_Clear(c)
    \/ \E c \in Callers : Call_Transition(c)
    \/ \E c \in Callers : Call_Handler(c)
    \/ \E c \in Callers, kind \in Kinds : Call_CancelCheck(c, kind)
    \/ \E c \in Callers : Call_CancelSet(c)
    \/ \E c \in Callers : Call_ConfirmClean(c)
    \/ \E c \in Callers : Call_PreviewClean(c)
    \/ \E w \in CallIds, o \in {"ok", "errors", "cancelled_engine",
                                "cancelled_worker", "internal_error", "raise"} :
          Worker_Engine(w, o)
    \/ \E w \in CallIds : Worker_ToIdle(w)
    \/ \E w \in CallIds : Worker_SetLatch(w)
    \/ \E w \in CallIds : Worker_Publish(w)
    \/ \E w \in CallIds : Worker_HandlerToIdle(w)
    \/ \E w \in CallIds : Worker_HandlerSetLatch(w)
    \/ \E w \in CallIds : Worker_HandlerPublish(w)

(***************************************************************************)
(* SecurityLayer  (src/src/core/security.py)                               *)
(*                                                                         *)
(* Paths are Windows paths on drive C:. A name is <<letters, case>>: the   *)
(* letters in lower case and how the name is written ("lower", "upper",    *)
(* or "mixed" for the spelling the directory entry has on disk, such as    *)
(* Windows or System32); two names are the same string iff the pairs are   *)
(* equal. A path is [rooted, parts]: C:\a\b is rooted, C:a\b is relative   *)
(* to the current directory of drive C:.                                   *)
(* The file system is NTFS: look-up ignores case, and the resolved path    *)
(* (os.path.realpath, Path.resolve) carries the on-disk spelling of every  *)
(* component that exists, follows symbolic links, and keeps a tail that    *)
(* does not exist as it was written.                                       *)
(***************************************************************************)

Lo(letters) == <<letters, "lower">>
Mx(letters) == <<letters, "mixed">>
Up(letters) == <<letters, "upper">>

\* str.lower() of a name.
Lower(n) == <<n[1], "lower">>

LowerSeq(ps) == [i \in 1..Len(ps) |-> Lower(ps[i])]

\* The directory tree on drive C:, every entry in its on-disk spelling.
FS_Nodes ==
    { <<>>,
      <<Mx("windows")>>,
      <<Mx("windows"), Mx("system32")>>,
      <<Mx("windows"), Mx("system32"), Lo("k.dll")>>,
      <<Mx("temp")>>,
      <<Mx("temp"), Lo("a.tmp")>>,
      <<Mx("temp"), Lo("pagefile.sys")>>,
      <<Mx("temp"), Lo("lnk")>>,
      <<Mx("temp"), Lo("lnk2")>>,
      <<Mx("$recycle.bin")>>,
      <<Mx("$recycle.bin"), Lo("a.tmp")>>,
      <<Mx("users")>> }

\* The symbolic links of the tree and where each points.
FS_Links ==
    [l \in {<<Mx("temp"), Lo("lnk")>>, <<Mx("temp"), Lo("lnk2")>>} |->
        IF l = <<Mx("temp"), Lo("lnk")>>
        THEN <<Mx("windows"), Mx("system32"), Lo("k.dll")>>
        ELSE <<Mx("temp"), Lo("pagefile.sys")>>]

\* The entry a resolved parent and one more name denote, if there is one.
FS_Entry(parent, n) ==
    {e \in FS_Nodes : /\ Len(e) = Len(parent) + 1
                      /\ SubSeq(e, 1, Len(parent)) = parent
                      /\ Lower(e[Len(e)]) = Lower(n)}

\* os.path.realpath / Path.resolve(strict=False) of an absolute path.
RECURSIVE RealParts(_)
RealParts(parts) ==
    IF parts = <<>> THEN <<>>
    ELSE LET parent == RealParts(SubSeq(parts, 1, Len(parts) - 1))
             n == parts[Len(parts)]
             found == FS_Entry(parent, n)
         IN IF found = {} THEN Append(parent, n)
            ELSE LET e == CHOOSE x \in found : TRUE
                 IN IF e \in DOMAIN FS_Links THEN FS_Links[e] ELSE e

\* The absolute form of a path: a drive-relative one is taken from the
\* current directory of the drive (GetFullPathName).
AbsParts(p, cwd) == IF p.rooted THEN p.parts ELSE cwd \o p.parts

\* Path.resolve(): the parts of the resolved path.
path_resolve(p, cwd) == RealParts(AbsParts(p, cwd))

\* Path.exists(): the path, links followed, denotes an entry of the tree.
path_exists(p, cwd) == path_resolve(p, cwd) \in FS_Nodes

\* Path(string): pathlib drops a trailing separator; "C:\Windows" is rooted,
\* "C:$Recycle.Bin" has a drive and no root.
ParsePath(str) == [rooted |-> str.rooted, parts |-> str.parts]

\* SecurityLayer.HARDCODED_PROTECTED as written in the source.
HARDCODED_PROTECTED ==
    << [rooted |-> TRUE,  parts |-> <<Mx("windows")>>, trailing |-> FALSE],
       [rooted |-> TRUE,  parts |-> <<Mx("program files")>>, trailing |-> FALSE],
       [rooted |-> TRUE,  parts |-> <<Mx("program files (x86)")>>, trailing |-> FALSE],
       [rooted |-> TRUE,  parts |-> <<Mx("programdata")>>, trailing |-> FALSE],
       [rooted |-> TRUE,  parts |-> <<Mx("system volume information")>>, trailing |-> FALSE],
       [rooted |-> TRUE,  parts |-> <<Mx("recovery")>>, trailing |-> FALSE],
       [rooted |-> TRUE,  parts |-> <<Mx("boot")>>, trailing |-> FALSE],
       [rooted |-> TRUE,  parts |-> <<Up("efi")>>, trailing |-> FALSE],
       [rooted |-> FALSE, parts |-> <<Mx("$recycle.bin")>>, trailing |-> FALSE] >>

\* SecurityLayer.SYSTEM_FILES.
SYSTEM_FILES ==
    {Lo("pagefile.sys"), Lo("hiberfil.sys"), Lo("swapfile.sys"), Lo("ntldr"),
     Lo("ntdetect.com"), Lo("boot.ini"), Lo("bootsect.bak")}

\* Path.suffix: the last extension of a name, in the name's own case; "" for
\* a name without a dot.
Suffix(n) ==
    CASE n[1] \in {"k.dll"} -> <<".dll", n[2]>>
      [] n[1] \in {"a.tmp", "zz.tmp"} -> <<".tmp", n[2]>>
      [] n[1] \in {"pagefile.sys"} -> <<".sys", n[2]>>
      [] n[1] \in {"$recycle.bin"} -> <<".bin", n[2]>>
      [] OTHER -> <<"", "lower">>

\* SecurityLayer._is_path_under: both paths resolved, then the parent's parts
\* compared with the first parts of the path, string by string.
is_path_under(p, parent, cwd) ==
    LET path_parts == path_resolve(p, cwd)
        parent_parts == path_resolve(parent, cwd)
    IN IF Len(path_parts) < Len(parent_parts) THEN FALSE
       ELSE SubSeq(path_parts, 1, Len(parent_parts)) = parent_parts

\* SecurityLayer.is_safe_to_delete(path, whitelist_extensions).
is_safe_to_delete(p, whitelist, protected, cwd) ==
    IF ~path_exists(p, cwd)
    THEN [safe |-> FALSE, reason |-> "File does not exist"]
    ELSE LET real_path == [rooted |-> TRUE, parts |-> path_resolve(p, cwd)]
             filename == Lower(p.parts[Len(p.parts)])
         IN IF \E i \in 1..Len(protected) :
                   is_path_under(real_path, ParsePath(protected[i]), cwd)
            THEN [safe |-> FALSE, reason |-> "Protected path"]
            ELSE IF filename \in SYSTEM_FILES
            THEN [safe |-> FALSE, reason |-> "System file"]
            ELSE IF Lower(Suffix(p.parts[Len(p.parts)])) \in {Lower(e) : e \in whitelist}
            THEN [safe |-> FALSE, reason |-> "Whitelisted extension"]
            ELSE [safe |-> TRUE, reason |-> "OK"]

\* The spellings a name can be given in.
Spellings(n) ==
    IF n[2] = "mixed" THEN {Mx(n[1]), Lo(n[1]), Up(n[1])} ELSE {Lo(n[1]), Up(n[1])}

\* Every spelling of a path of the tree.
SpellingsOf(node) ==
    {q \in [1..Len(node) -> UNION {Spellings(node[i]) : i \in 1..Len(node)}] :
        \A i \in 1..Len(node) : q[i] \in Spellings(node[i])}

\* The paths is_safe_to_delete is asked about: every entry of the tree in
\* every spelling, and two paths that do not exist; rooted or drive-relative.
QueryParts ==
    UNION {SpellingsOf(node) : node \in FS_Nodes \ {<<>>}}
        \cup { <<Mx("windows"), Lo("zz.tmp")>>, <<Mx("boot"), Lo("zz.tmp")>> }

QueryPaths == [rooted : BOOLEAN, parts : QueryParts]

\* The current directories the process may run in.
WorkingDirs == { <<>>, <<Mx("users")>> }

\* The whitelists passed: none, or temporary files written in upper case.
Whitelists == { {}, {Up(".tmp")} }

\* The roots add_protected_path is called with: the Temp directory in lower
\* case with a trailing separator, and in upper case without.
ExtraRoots ==
    { [rooted |-> TRUE, parts |-> <<Lo("temp")>>, trailing |-> TRUE],
      [rooted |-> TRUE, parts |-> <<Up("temp")>>, trailing |-> FALSE] }

\* How many roots are added before the query.
MaxExtraRoots == 1

\* SecurityLayer.add_protected_path(path), before the query; a path already
\* in the list is not added again.
Sec_AddProtected(root) ==
    /\ sec_pc = "init"
    /\ \A i \in 1..Len(sec_protected) : sec_protected[i] # root
    /\ Len(sec_protected) < Len(HARDCODED_PROTECTED) + MaxExtraRoots
    /\ sec_protected' = Append(sec_protected, root)
    /\ UNCHANGED <<sec_cwd, sec_path, sec_whitelist, sec_pc, sec_result>>
    /\ UNCHANGED nonSecVars

\* The call is_safe_to_delete(sec_path, sec_whitelist).
Sec_Check ==
    /\ sec_pc = "init"
    /\ sec_result' = is_safe_to_delete(sec_path, sec_whitelist, sec_protected, sec_cwd)
    /\ sec_pc' = "done"
    /\ UNCHANGED <<sec_cwd, sec_protected, sec_path, sec_whitelist>>
    /\ UNCHANGED nonSecVars

Sec_Next ==
    \/ \E root \in ExtraRoots : Sec_AddProtected(root)
    \/ Sec_Check

(***************************************************************************)
(* CleanerExecutor  (src/src/core/cleaner.py)                              *)
(*                                                                         *)
(* One call of clean(files) on the worker thread, file by file, while      *)
(* another thread may call cancel(). A file is the size its FileInfo       *)
(* carries; what is_safe_to_delete and the delete primitive answer for it  *)
(* is decided by the file system when the file is handled.                 *)
(***************************************************************************)

\* Bound on the length of the file list.
MaxFiles == 3

\* The sizes a FileInfo carries.
FileSizes == {1, 2}

\* The file lists clean() is called with, the empty one included.
FileLists == UNION {[1..n -> FileSizes] : n \in 0..MaxFiles}

\* clean_progress is published after every PROGRESS_EVERY-th file.
PROGRESS_EVERY == 10

\* CleanResult(): the dataclass defaults.
NewCleanResult == [success |-> TRUE, files_deleted |-> 0, total_size |-> 0,
                   errors |-> <<>>, skipped |-> 0]

\* What is_safe_to_delete answers for a file when it is handled: (True, "OK"),
\* (False, reason), or an exception.
Verdicts == {"safe", "unsafe", "raise"}

\* What _delete_file answers: True (moved to the recycle bin, or simulated
\* when send2trash is missing), or False (send2trash raised).
DeleteOutcomes == {"ok", "false"}

\* A mutation of clean's loop body: the safety verdict is ignored.
clean_one_file_NoSkip(result, i, size, verdict, del) ==
    IF del = "ok"
    THEN [result |-> [result EXCEPT !.files_deleted = @ + 1,
                                    !.total_size = @ + size],
          delete_called |-> TRUE, skipped_rest |-> FALSE]
    ELSE [result |-> [result EXCEPT !.errors =
                         Append(@, [kind |-> "failed_to_delete", file |-> i])],
          delete_called |-> TRUE, skipped_rest |-> FALSE]

\* A mutation of clean's loop body: a file refused by the safety check is
\* counted as skipped and also recorded as an error.
clean_one_file_SkipIsError(result, i, size, verdict, del) ==
    CASE verdict = "raise" ->
            [result |-> [result EXCEPT !.errors =
                            Append(@, [kind |-> "error_deleting", file |-> i])],
             delete_called |-> FALSE, skipped_rest |-> FALSE]
      [] verdict = "unsafe" ->
            [result |-> [result EXCEPT !.skipped = @ + 1, !.errors =
                            Append(@, [kind |-> "error_deleting", file |-> i])],
             delete_called |-> FALSE, skipped_rest |-> TRUE]
      [] verdict = "safe" /\ del = "ok" ->
            [result |-> [result EXCEPT !.files_deleted = @ + 1,
                                       !.total_size = @ + size],
             delete_called |-> TRUE, skipped_rest |-> FALSE]
      [] verdict = "safe" /\ del = "false" ->
            [result |-> [result EXCEPT !.errors =
                            Append(@, [kind |-> "failed_to_delete", file |-> i])],
             delete_called |-> TRUE, skipped_rest |-> FALSE]

\* The body of clean's loop for the file at position i (1-based) once the
\* cancel check has passed: the CleanResult after it, whether _delete_file was
\* called, and whether `continue` skipped the rest of the body (the progress
\* callback and the progress event).
clean_one_file(result, i, size, verdict, del) ==
    CASE verdict = "raise" ->
            [result |-> [result EXCEPT !.errors =
                            Append(@, [kind |-> "error_deleting", file |-> i])],
             delete_called |-> FALSE, skipped_rest |-> FALSE]
      [] verdict = "unsafe" ->
            [result |-> [result EXCEPT !.skipped = @ + 1],
             delete_called |-> FALSE, skipped_rest |-> TRUE]
      [] verdict = "safe" /\ del = "ok" ->
            [result |-> [result EXCEPT !.files_deleted = @ + 1,
                                       !.total_size = @ + size],
             delete_called |-> TRUE, skipped_rest |-> FALSE]
      [] verdict = "safe" /\ del = "false" ->
            [result |-> [result EXCEPT !.errors =
                            Append(@, [kind |-> "failed_to_delete", file |-> i])],
             delete_called |-> TRUE, skipped_rest |-> FALSE]

\* Whether clean_progress is published after the file at position i of n.
progress_due(i, n) == (i % PROGRESS_EVERY = 0) \/ (i = n)

\* clean(): the empty list returns a fresh CleanResult at once; otherwise
\* clean_started is published.
Clean_Begin ==
    /\ cl_pc = "init"
    /\ IF Len(cl_files) = 0
       THEN /\ cl_pc' = "returned"
            /\ UNCHANGED cl_events
       ELSE /\ cl_pc' = "loop"
            /\ cl_events' = Append(cl_events, [type |-> "clean_started", current |-> 0])
    /\ UNCHANGED <<cl_files, cl_fates, cl_idx, cl_result, cl_log, cancel_flag, engine_cancelled>>
    /\ UNCHANGED nonCleanVars

\* A mutation of the cancel branch: it publishes clean_failed itself before
\* leaving the loop, and the code after the loop publishes once more.
Clean_SeeCancel_Publishes ==
    /\ cl_pc = "loop"
    /\ cl_idx < Len(cl_files)
    /\ engine_cancelled["clean"] \/ cancel_flag
    /\ cl_result' = [cl_result EXCEPT !.success = FALSE,
                        !.errors = Append(@, [kind |-> "cancelled", file |-> 0])]
    /\ cl_events' = Append(cl_events, [type |-> "clean_failed", current |-> cl_idx])
    /\ cl_pc' = "finish"
    /\ UNCHANGED <<cl_files, cl_fates, cl_idx, cl_log, cancel_flag, engine_cancelled>>
    /\ UNCHANGED nonCleanVars

\* One iteration that sees the cancellation: success False, "Cancelled by
\* user" recorded, the loop left.
Clean_SeeCancel ==
    /\ cl_pc = "loop"
    /\ cl_idx < Len(cl_files)
    /\ engine_cancelled["clean"] \/ cancel_flag
    /\ cl_result' = [cl_result EXCEPT !.success = FALSE,
                        !.errors = Append(@, [kind |-> "cancelled", file |-> 0])]
    /\ cl_pc' = "finish"
    /\ UNCHANGED <<cl_files, cl_fates, cl_idx, cl_events, cl_log, cancel_flag, engine_cancelled>>
    /\ UNCHANGED nonCleanVars

\* What the file system holds for a file of the list: "any" leaves the
\* answers of is_safe_to_delete and _delete_file open; "missing" is a path
\* that does not exist; "deletable" is an existing file that is safe to
\* delete and that send2trash removes.
Fates == {"any", "missing", "deletable"}

\* What is_safe_to_delete answers for a path that does not exist.
MissingVerdict ==
    IF is_safe_to_delete([rooted |-> TRUE, parts |-> <<Mx("temp"), Lo("gone.tmp")>>],
                         {}, HARDCODED_PROTECTED, <<>>).safe
    THEN "safe" ELSE "unsafe"

\* The answers the file system allows for a file of a given fate.
fate_allows(fate, verdict, del) ==
    CASE fate = "missing" -> verdict = MissingVerdict
      [] fate = "deletable" -> verdict = "safe" /\ del = "ok"
      [] OTHER -> TRUE

\* One iteration that handles a file: safety check, delete, progress.
Clean_File(verdict, del) ==
    LET i == cl_idx + 1
        r == clean_one_file(cl_result, i, cl_files[i], verdict, del)
    IN
    /\ cl_pc = "loop"
    /\ cl_idx < Len(cl_files)
    /\ ~(engine_cancelled["clean"] \/ cancel_flag)
    /\ fate_allows(cl_fates[i], verdict, del)
    /\ cl_result' = r.result
    /\ cl_log' = Append(cl_log, [file |-> i, verdict |-> verdict,
                                 delete_called |-> r.delete_called,
                                 deleted |-> r.delete_called /\ del = "ok"])
    /\ cl_events' =
          IF ~r.skipped_rest /\ progress_due(i, Len(cl_files))
          THEN Append(cl_events, [type |-> "clean_progress", current |-> i])
          ELSE cl_events
    /\ cl_idx' = i
    /\ cl_pc' = IF i = Len(cl_files) THEN "finish" ELSE "loop"
    /\ UNCHANGED <<cl_files, cl_fates, cancel_flag, engine_cancelled>>
    /\ UNCHANGED nonCleanVars

\* After the loop: clean_completed when success and no errors, clean_failed
\* otherwise; the CleanResult is returned.
Clean_Finish ==
    /\ cl_pc = "finish"
    /\ cl_events' = Append(cl_events,
          [type |-> IF cl_result.success /\ Len(cl_result.errors) = 0
                    THEN "clean_completed" ELSE "clean_failed",
           current |-> cl_idx])
    /\ cl_pc' = "returned"
    /\ UNCHANGED <<cl_files, cl_fates, cl_idx, cl_result, cl_log, cancel_flag, engine_cancelled>>
    /\ UNCHANGED nonCleanVars

\* CleanerExecutor.cancel(), from another thread while clean() runs: sets
\* _cancelled and calls state_manager.request_cancel().
Clean_Cancel ==
    /\ cl_pc \in {"init", "loop"}
    /\ ~engine_cancelled["clean"]
    /\ engine_cancelled' = [engine_cancelled EXCEPT !["clean"] = TRUE]
    /\ cancel_flag' = request_cancel(cancel_flag)
    /\ UNCHANGED cleanVars
    /\ UNCHANGED nonCleanVars

Clean_Next ==
    \/ Clean_Begin
    \/ Clean_SeeCancel
    \/ \E v \in Verdicts, d \in DeleteOutcomes : Clean_File(v, d)
    \/ Clean_Finish
    \/ Clean_Cancel

(***************************************************************************)
(* RuleEngine and OptimizedRuleEngine                                      *)
(*   (src/src/core/rule_engine.py, src/src/core/rule_engine_optimized.py)  *)
(*                                                                         *)
(* A rule is [enabled, conditions]; its identity is its position in the    *)
(* engine's rule list, and a match names the rule by that position (0 for  *)
(* rule=None). Extensions are names <<letters, case>> as above. The two    *)
(* engines are loaded with the same rule list.                             *)
(***************************************************************************)

\* The longest rule list loaded.
MaxRules == 2

\* The files matched: FileInfo(path, size), file_extension being path.suffix.
FileInfos ==
    { [path |-> "C:\\Temp\\a.tmp", name |-> "a.tmp", ext |-> Lo(".tmp"), size |-> 1],
      [path |-> "C:\\Temp\\b.TMP", name |-> "b.TMP", ext |-> Up(".tmp"), size |-> 2],
      [path |-> "C:\\Data\\c.log", name |-> "c.log", ext |-> Lo(".log"), size |-> 2],
      [path |-> "C:\\Data\\d",     name |-> "d",     ext |-> Lo(""),     size |-> 1] }

\* re.match of a wildcard path pattern (made a regular expression, anchored,
\* IGNORECASE) on str(path).
path_pattern_match(pattern, path) ==
    CASE pattern = "C:\\Temp\\*" -> path \in {"C:\\Temp\\a.tmp", "C:\\Temp\\b.TMP"}
      [] OTHER -> FALSE

\* re.search of a name pattern (IGNORECASE) on path.name.
name_pattern_search(pattern, name) ==
    CASE pattern = "^[ab]" -> name \in {"a.tmp", "b.TMP"}
      [] OTHER -> FALSE

\* The RuleConditions the rule lists are built from; a pattern "none" is None,
\* a size bound <<>> is None and <<n>> is n.
Conditions ==
    { [path_pattern |-> "none", file_extensions |-> <<>>,
       min_size |-> <<>>, max_size |-> <<>>, name_pattern |-> "none"],
      [path_pattern |-> "none", file_extensions |-> <<Lo(".tmp")>>,
       min_size |-> <<>>, max_size |-> <<1>>, name_pattern |-> "^[ab]"],
      [path_pattern |-> "none", file_extensions |-> <<Up(".tmp"), Lo(".log")>>,
       min_size |-> <<2>>, max_size |-> <<>>, name_pattern |-> "none"],
      [path_pattern |-> "C:\\Temp\\*", file_extensions |-> <<>>,
       min_size |-> <<>>, max_size |-> <<>>, name_pattern |-> "none"] }

Rules == [enabled : BOOLEAN, conditions : Conditions]

RuleLists == UNION {[1..n -> Rules] : n \in 0..MaxRules}

\* A match result: RuleMatch(rule, matched).
NoMatch == [matched |-> FALSE, rule |-> 0]

\* file_info.file_extension.lower() in [ext.lower() for ext in file_extensions].
extension_listed(c, f) ==
    \E k \in 1..Len(c.file_extensions) : Lower(c.file_extensions[k]) = Lower(f.ext)

\* RuleConditions.matches.
conditions_matches(c, f) ==
    IF c.path_pattern # "none" /\ ~path_pattern_match(c.path_pattern, f.path) THEN FALSE
    ELSE IF c.file_extensions # <<>> /\ ~extension_listed(c, f) THEN FALSE
    ELSE IF c.min_size # <<>> /\ f.size < c.min_size[1] THEN FALSE
    ELSE IF c.max_size # <<>> /\ f.size > c.max_size[1] THEN FALSE
    ELSE IF c.name_pattern # "none" /\ ~name_pattern_search(c.name_pattern, f.name) THEN FALSE
    ELSE TRUE

\* OptimizedRuleConditions.matches: the extension test first.
optimized_conditions_matches(c, f) ==
    IF c.file_extensions # <<>> /\ ~extension_listed(c, f) THEN FALSE
    ELSE IF c.path_pattern # "none" /\ ~path_pattern_match(c.path_pattern, f.path) THEN FALSE
    ELSE IF c.min_size # <<>> /\ f.size < c.min_size[1] THEN FALSE
    ELSE IF c.max_size # <<>> /\ f.size > c.max_size[1] THEN FALSE
    ELSE IF c.name_pattern # "none" /\ ~name_pattern_search(c.name_pattern, f.name) THEN FALSE
    ELSE TRUE

\* Rule.matches, on a rule of the baseline engine.
rule_matches(r, f) == IF ~r.enabled THEN FALSE ELSE conditions_matches(r.conditions, f)

\* Rule.matches, on a rule whose conditions load_rules made optimized ones.
optimized_rule_matches(r, f) ==
    IF ~r.enabled THEN FALSE ELSE optimized_conditions_matches(r.conditions, f)

\* RuleIndex._index_rules: enabled_rules, the enabled rules in list order.
enabled_rules(rules) ==
    SelectSeq([i \in 1..Len(rules) |-> i], LAMBDA i : rules[i].enabled)

\* The first rule of a candidate list, from position k on, that is_match
\* accepts (the for loop of match_file).
RECURSIVE first_match(_, _, _, _, _)
first_match(cands, k, rules, f, optimized) ==
    IF k > Len(cands) THEN NoMatch
    ELSE IF (IF optimized THEN optimized_rule_matches(rules[cands[k]], f)
                          ELSE rule_matches(rules[cands[k]], f))
         THEN [matched |-> TRUE, rule |-> cands[k]]
         ELSE first_match(cands, k + 1, rules, f, optimized)

\* A variant of RuleEngine.match_file in which the last matching rule wins.
RuleEngine_match_file_Last(rules, f) ==
    LET hits == {i \in 1..Len(rules) : rule_matches(rules[i], f)}
    IN IF hits = {} THEN NoMatch
       ELSE [matched |-> TRUE, rule |-> CHOOSE i \in hits : \A j \in hits : j <= i]

\* RuleEngine.match_file.
RuleEngine_match_file(rules, f) ==
    first_match(enabled_rules(rules), 1, rules, f, FALSE)

\* ExtensionIndex.add_rule over the whole list, from rule i on: the list
\* rules_by_extension[e], a rule entered once for each of its extensions
\* that is e in lower case. A rule with no extension goes to
\* rules_without_extension, which no look-up reads.
RECURSIVE rules_by_extension(_, _, _)
rules_by_extension(rules, e, i) ==
    IF i > Len(rules) THEN <<>>
    ELSE LET exts == rules[i].conditions.file_extensions
             hits == SelectSeq(exts, LAMBDA x : Lower(x) = e)
         IN [k \in 1..Len(hits) |-> i] \o rules_by_extension(rules, e, i + 1)

\* ExtensionIndex.get_rules(file_extension).
get_rules(rules, file_extension) == rules_by_extension(rules, Lower(file_extension), 1)

\* A variant of the candidate choice that always takes every enabled rule.
candidate_rules_All(rules, f) == enabled_rules(rules)

\* OptimizedRuleEngine.match_file: the candidates, the rules indexed under
\* the file's extension or, if there is none, all the enabled rules.
candidate_rules(rules, f) ==
    IF get_rules(rules, f.ext) # <<>> THEN get_rules(rules, f.ext)
    ELSE enabled_rules(rules)

\* The position of a key in the match cache, 0 if it is not there.
cache_index(cache, key) ==
    IF \E k \in 1..Len(cache) : cache[k].key = key
    THEN CHOOSE k \in 1..Len(cache) : cache[k].key = key
    ELSE 0

\* OptimizedRuleEngine.match_file on a cache miss: the loop over the candidates.
optimized_match(rules, f) ==
    first_match(candidate_rules(rules, f), 1, rules, f, TRUE)

\* OptimizedRuleEngine.cache_size_limit (10000 in the source), scaled down.
cache_size_limit == 2

\* How many insertions into the match cache are followed.
MaxInserts == 3

\* A variant of _cache_match that removes the newest entry when full.
cache_match_Newest(cache, key, match, stamp) ==
    LET kept == IF Len(cache) >= cache_size_limit
                THEN SubSeq(cache, 1, Len(cache) - 1) ELSE cache
    IN Append(kept, [key |-> key, match |-> match, stamp |-> stamp])

\* OptimizedRuleEngine._cache_match: when the dict is full its first key (the
\* oldest insertion) is popped; then match_cache[key] = match, which replaces
\* in place the value of a key already there and otherwise appends.
cache_match(cache, key, match, stamp) ==
    LET kept == IF Len(cache) >= cache_size_limit THEN Tail(cache) ELSE cache
        at == cache_index(kept, key)
        entry == [key |-> key, match |-> match, stamp |-> stamp]
    IN IF at # 0 THEN [kept EXCEPT ![at].match = match]
       ELSE Append(kept, entry)

\* No match_file call made yet.
NoMatchCall ==
    [called |-> FALSE,
     file |-> [path |-> "none", name |-> "none", ext |-> Lo(""), size |-> 0],
     base |-> NoMatch, opt |-> NoMatch, hit |-> FALSE, cache_before |-> <<>>,
     cache_after |-> <<>>]

\* match_file(f) on both engines: RuleEngine.match_file, and
\* OptimizedRuleEngine.match_file with its cache look-up and insertion.
Rule_MatchFile(f) ==
    LET at == cache_index(match_cache, f.path)
        fresh == optimized_match(re_rules, f)
    IN /\ at # 0 \/ re_inserts < MaxInserts
       /\ match_cache' = IF at # 0 THEN match_cache
                         ELSE cache_match(match_cache, f.path, fresh, re_inserts + 1)
       /\ re_last' = [called |-> TRUE,
                      file |-> f,
                      base |-> RuleEngine_match_file(re_rules, f),
                      opt |-> IF at # 0 THEN match_cache[at].match ELSE fresh,
                      hit |-> at # 0,
                      cache_before |-> match_cache,
                      cache_after |-> match_cache']
       /\ re_inserts' = IF at # 0 THEN re_inserts ELSE re_inserts + 1
       /\ UNCHANGED re_rules
       /\ UNCHANGED nonRuleVars

\* OptimizedRuleEngine.clear_cache.
Rule_ClearCache ==
    /\ match_cache # <<>>
    /\ match_cache' = <<>>
    /\ UNCHANGED <<re_rules, re_inserts, re_last>>
    /\ UNCHANGED nonRuleVars

Rule_Next ==
    \/ \E f \in FileInfos : Rule_MatchFile(f)
    \/ Rule_ClearCache

(***************************************************************************)
(* CoreScanner.scan driven by ScanController._scan_worker                  *)
(*   (src/src/core/scanner.py, src/src/controllers/scan_controller.py)     *)
(*                                                                         *)
(* One scan, from the moment start_scan has moved the state to Scanning    *)
(* and started the worker. The scanner is a generator: at each yield the   *)
(* worker's loop body runs, and the generator goes on only when the loop   *)
(* asks for the next result. An entry reported is <<target, position>>:    *)
(* the number of the target and the place of the entry in the order        *)
(* rglob('*') walks that target's tree.                                    *)
(***************************************************************************)

\* The longest target list scanned.
MaxTargets == 2

\* What rglob('*') finds under a target directory, in its order: a
\* directory, a file in it, a symbolic link (skipped), and a file.
TreeEntries ==
    << [is_dir |-> TRUE,  size |-> 0, skip |-> FALSE],
       [is_dir |-> FALSE, size |-> 2, skip |-> FALSE],
       [is_dir |-> FALSE, size |-> 1, skip |-> TRUE],
       [is_dir |-> FALSE, size |-> 1, skip |-> FALSE] >>

\* The ScanTargets: disabled; enabled with a missing root; a single file; a
\* directory tree.
ScanTargets ==
    { [enabled |-> FALSE, exists |-> TRUE,  kind |-> "dir",  entries |-> TreeEntries],
      [enabled |-> TRUE,  exists |-> FALSE, kind |-> "dir",  entries |-> <<>>],
      [enabled |-> TRUE,  exists |-> TRUE,  kind |-> "file",
       entries |-> <<[is_dir |-> FALSE, size |-> 1, skip |-> FALSE]>>],
      [enabled |-> TRUE,  exists |-> TRUE,  kind |-> "dir",  entries |-> TreeEntries] }

TargetLists == UNION {[1..n -> ScanTargets] : n \in 1..MaxTargets}

\* A variant of ScanResultOf that never records an error.
ScanResultOf_NoError(t, target, files, error) ==
    [target |-> t, files |-> files, error |-> FALSE,
     file_count |-> 0, dir_count |-> 0, total_size |-> 0]

\* ScanResult(target, files, file_count, dir_count, total_size, error_message).
\* files holds, for each FileInfo, its position in the target's tree.
ScanResultOf(t, target, files, error) ==
    LET e(k) == target.entries[files[k]]
        fs == {k \in 1..Len(files) : ~e(k).is_dir}
        ds == {k \in 1..Len(files) : e(k).is_dir}
        RECURSIVE sum(_)
        sum(k) == IF k = 0 THEN 0 ELSE e(k).size + sum(k - 1)
    IN [target |-> t, files |-> files, error |-> error,
        file_count |-> Cardinality(fs), dir_count |-> Cardinality(ds),
        total_size |-> sum(Len(files))]

\* No result pending at a yield.
NoResult == [target |-> 0, files |-> <<>>, error |-> FALSE,
             file_count |-> 0, dir_count |-> 0, total_size |-> 0]

\* The condition both loops of the scanner test:
\* state_manager.is_cancel_requested or self._cancelled.
scan_cancel_seen == cancel_flag \/ engine_cancelled["scan"]

\* CoreScanner.scan: SCAN_STARTED is published before the loop.
Scan_Begin ==
    /\ sc_pc = "start"
    /\ sc_events' = Append(sc_events, [type |-> "scan_started", by |-> "scanner", target |-> 0])
    /\ sc_t' = 1
    /\ sc_pc' = "head"
    /\ UNCHANGED <<sc_targets, sc_i, sc_files, sc_pending, sc_resume, sc_yielded,
                   sc_results, sc_cancel_pc, sc_raced, sc_cut>>
    /\ UNCHANGED nonScanVars

\* CoreScanner.scan: the top of the loop over the targets. A cancel request
\* publishes SCAN_FAILED and breaks; a disabled target is passed over; an
\* enabled target whose root is missing yields an error result and the loop
\* continues without a progress event; a single file is scanned at once; a
\* directory starts its traversal.
Scan_Head ==
    /\ sc_pc = "head"
    /\ IF sc_t > Len(sc_targets)
       THEN /\ sc_pc' = "after"
            /\ UNCHANGED <<sc_events, sc_t, sc_i, sc_files, sc_pending, sc_resume>>
       ELSE IF scan_cancel_seen
       THEN /\ sc_events' = Append(sc_events,
                               [type |-> "scan_failed", by |-> "scanner", target |-> 0])
            /\ sc_pc' = "after"
            /\ UNCHANGED <<sc_t, sc_i, sc_files, sc_pending, sc_resume>>
       ELSE IF ~sc_targets[sc_t].enabled
       THEN /\ sc_t' = sc_t + 1
            /\ UNCHANGED <<sc_pc, sc_events, sc_i, sc_files, sc_pending, sc_resume>>
       ELSE IF ~sc_targets[sc_t].exists
       THEN /\ sc_pending' = ScanResultOf(sc_t, sc_targets[sc_t], <<>>, TRUE)
            /\ sc_resume' = "next"
            /\ sc_pc' = "yield"
            /\ UNCHANGED <<sc_events, sc_t, sc_i, sc_files>>
       ELSE IF sc_targets[sc_t].kind = "file"
       THEN /\ sc_pending' = ScanResultOf(sc_t, sc_targets[sc_t], <<1>>, FALSE)
            /\ sc_resume' = "progress"
            /\ sc_pc' = "yield"
            /\ UNCHANGED <<sc_events, sc_t, sc_i, sc_files>>
       ELSE /\ sc_i' = 1
            /\ sc_files' = <<>>
            /\ sc_pc' = "traverse"
            /\ UNCHANGED <<sc_events, sc_t, sc_pending, sc_resume>>
    /\ UNCHANGED <<sc_targets, sc_yielded, sc_results, sc_cancel_pc, sc_raced, sc_cut>>
    /\ UNCHANGED nonScanVars

\* CoreScanner._scan_directory inside scan_single_target: one item of
\* rglob('*'). A cancel request ends the traversal and the target's result
\* holds the entries found so far; a symbolic link or protected path is
\* skipped; any other item is appended. After the last item the result is
\* yielded.
Scan_Item ==
    /\ sc_pc = "traverse"
    /\ LET target == sc_targets[sc_t]
           finished == sc_i > Len(target.entries)
           cut == ~finished /\ scan_cancel_seen
       IN IF finished \/ cut
          THEN /\ sc_pending' = ScanResultOf(sc_t, target, sc_files, FALSE)
               /\ sc_resume' = "progress"
               /\ sc_pc' = "yield"
               /\ sc_cut' = (sc_cut \/ cut)
               /\ UNCHANGED <<sc_i, sc_files>>
          ELSE /\ sc_files' = IF target.entries[sc_i].skip THEN sc_files
                              ELSE Append(sc_files, sc_i)
               /\ sc_i' = sc_i + 1
               /\ UNCHANGED <<sc_pc, sc_pending, sc_resume, sc_cut>>
    /\ UNCHANGED <<sc_targets, sc_t, sc_events, sc_yielded, sc_results,
                   sc_cancel_pc, sc_raced>>
    /\ UNCHANGED nonScanVars

\* The yield of CoreScanner.scan and the body of the worker's loop over it:
\* if state_manager.is_cancel_requested the worker publishes SCAN_FAILED and
\* breaks, and the generator is never resumed; otherwise the result is
\* handled and appended to _results, and the generator goes on.
Scan_Yield ==
    /\ sc_pc = "yield"
    /\ sc_yielded' = Append(sc_yielded, sc_pending)
    /\ IF cancel_flag
       THEN /\ sc_events' = Append(sc_events,
                               [type |-> "scan_failed", by |-> "controller", target |-> 0])
            /\ sc_pc' = "to_idle"
            /\ UNCHANGED sc_results
       ELSE /\ sc_results' = Append(sc_results, sc_pending)
            /\ sc_pc' = sc_resume
            /\ UNCHANGED sc_events
    /\ sc_pending' = NoResult
    /\ UNCHANGED <<sc_targets, sc_t, sc_i, sc_files, sc_resume, sc_cancel_pc,
                   sc_raced, sc_cut>>
    /\ UNCHANGED nonScanVars

\* CoreScanner.scan resumed after the yield of a scanned target: SCAN_PROGRESS
\* is published and the loop goes to the next target.
Scan_Progress ==
    /\ sc_pc = "progress"
    /\ sc_events' = Append(sc_events,
                       [type |-> "scan_progress", by |-> "scanner", target |-> sc_t])
    /\ sc_t' = sc_t + 1
    /\ sc_pc' = "head"
    /\ UNCHANGED <<sc_targets, sc_i, sc_files, sc_pending, sc_resume, sc_yielded,
                   sc_results, sc_cancel_pc, sc_raced, sc_cut>>
    /\ UNCHANGED nonScanVars

\* CoreScanner.scan resumed after the yield of a missing-root result:
\* `continue`, no progress event.
Scan_Continue ==
    /\ sc_pc = "next"
    /\ sc_t' = sc_t + 1
    /\ sc_pc' = "head"
    /\ UNCHANGED <<sc_targets, sc_i, sc_files, sc_pending, sc_resume, sc_yielded,
                   sc_results, sc_events, sc_cancel_pc, sc_raced, sc_cut>>
    /\ UNCHANGED nonScanVars

\* CoreScanner.scan after its loop, ended or broken: SCAN_COMPLETED is
\* published and the generator is exhausted.
Scan_After ==
    /\ sc_pc = "after"
    /\ sc_events' = Append(sc_events,
                       [type |-> "scan_completed", by |-> "scanner", target |-> 0])
    /\ sc_pc' = "to_idle"
    /\ UNCHANGED <<sc_targets, sc_t, sc_i, sc_files, sc_pending, sc_resume,
                   sc_yielded, sc_results, sc_cancel_pc, sc_raced, sc_cut>>
    /\ UNCHANGED nonScanVars

\* _scan_worker after its loop: transition_to(IDLE). A StateTransitionError
\* goes to the except branch, whose own transition_to(IDLE) raises it again.
Scan_WorkerToIdle ==
    LET r == transition_to(state, cancel_flag, "idle") IN
    /\ sc_pc = "to_idle"
    /\ state' = r.state
    /\ cancel_flag' = r.cancel_flag
    /\ sc_pc' = IF r.raised THEN "dead" ELSE "set_latch"
    /\ UNCHANGED <<result_queue, sm_last>>
    /\ UNCHANGED <<confirmed, ever_confirmed, latch, engine_cancelled, callers,
                   ncalls, workers>>
    /\ UNCHANGED <<sc_targets, sc_t, sc_i, sc_files, sc_pending, sc_resume,
                   sc_yielded, sc_results, sc_events, sc_cancel_pc, sc_raced, sc_cut>>
    /\ UNCHANGED nonSmCtlScanVars

\* _scan_worker: _scan_complete_event.set().
Scan_WorkerSetLatch ==
    /\ sc_pc = "set_latch"
    /\ latch' = [latch EXCEPT !["scan"] = TRUE]
    /\ sc_pc' = "publish"
    /\ UNCHANGED <<smVars, confirmed, ever_confirmed, engine_cancelled, callers,
                   ncalls, workers>>
    /\ UNCHANGED <<sc_targets, sc_t, sc_i, sc_files, sc_pending, sc_resume,
                   sc_yielded, sc_results, sc_events, sc_cancel_pc, sc_raced, sc_cut>>
    /\ UNCHANGED nonSmCtlScanVars

\* _scan_worker: SCAN_COMPLETED is published by the controller.
Scan_WorkerPublish ==
    /\ sc_pc = "publish"
    /\ sc_events' = Append(sc_events,
                       [type |-> "scan_completed", by |-> "controller", target |-> 0])
    /\ sc_pc' = "done"
    /\ UNCHANGED <<sc_targets, sc_t, sc_i, sc_files, sc_pending, sc_resume,
                   sc_yielded, sc_results, sc_cancel_pc, sc_raced, sc_cut>>
    /\ UNCHANGED nonScanVars

\* ScanController.cancel_scan, first half: the state is Scanning and
\* state_manager.request_cancel() is called.
Scan_CancelRequest ==
    /\ sc_cancel_pc = "none"
    /\ state = "scanning"
    /\ cancel_flag' = request_cancel(cancel_flag)
    /\ sc_cancel_pc' = "requested"
    /\ UNCHANGED <<state, result_queue, sm_last>>
    /\ UNCHANGED <<confirmed, ever_confirmed, latch, engine_cancelled, callers,
                   ncalls, workers>>
    /\ UNCHANGED <<sc_targets, sc_pc, sc_t, sc_i, sc_files, sc_pending, sc_resume,
                   sc_yielded, sc_results, sc_events, sc_raced, sc_cut>>
    /\ UNCHANGED nonSmCtlScanVars

\* ScanController.cancel_scan, second half: scanner.cancel() sets _cancelled
\* and calls request_cancel() again.
Scan_CancelEngine ==
    /\ sc_cancel_pc = "requested"
    /\ engine_cancelled' = [engine_cancelled EXCEPT !["scan"] = TRUE]
    /\ cancel_flag' = request_cancel(cancel_flag)
    /\ sc_cancel_pc' = "done"
    /\ UNCHANGED <<state, result_queue, sm_last>>
    /\ UNCHANGED <<confirmed, ever_confirmed, latch, callers, ncalls, workers>>
    /\ UNCHANGED <<sc_targets, sc_pc, sc_t, sc_i, sc_files, sc_pending, sc_resume,
                   sc_yielded, sc_results, sc_events, sc_raced, sc_cut>>
    /\ UNCHANGED nonSmCtlScanVars

\* A start_clean call of another thread that passed its is_idle() check
\* before this scan was started reaches its transition_to(CLEANING) while the
\* scan runs: Scanning -> Cleaning is allowed and the cancel flag is reset.
Scan_RacingStartClean ==
    LET r == transition_to(state, cancel_flag, "cleaning") IN
    /\ ~sc_raced
    /\ sc_pc \notin {"done", "dead"}
    /\ ~r.raised
    /\ state' = r.state
    /\ cancel_flag' = r.cancel_flag
    /\ sc_raced' = TRUE
    /\ UNCHANGED <<result_queue, sm_last>>
    /\ UNCHANGED <<confirmed, ever_confirmed, latch, engine_cancelled, callers,
                   ncalls, workers>>
    /\ UNCHANGED <<sc_targets, sc_pc, sc_t, sc_i, sc_files, sc_pending, sc_resume,
                   sc_yielded, sc_results, sc_events, sc_cancel_pc, sc_cut>>
    /\ UNCHANGED nonSmCtlScanVars

Scan_Next ==
    \/ Scan_Begin
    \/ Scan_Head
    \/ Scan_Item
    \/ Scan_Yield
    \/ Scan_Progress
    \/ Scan_Continue
    \/ Scan_After
    \/ Scan_WorkerToIdle
    \/ Scan_WorkerSetLatch
    \/ Scan_WorkerPublish
    \/ Scan_CancelRequest
    \/ Scan_CancelEngine
    \/ Scan_RacingStartClean

(***************************************************************************)
(* scan_single_target over a directory tree, with CoreScanner and with     *)
(* OptimizedCoreScanner                                                    *)
(*   (src/src/core/scanner.py, src/src/core/scanner_optimized.py)          *)
(*                                                                         *)
(* A tree is the sequence of the entries below the target directory; an    *)
(* entry is [is_dir, size, parent], parent being the position of the       *)
(* directory that holds it (0 for the target directory itself), and size   *)
(* what stat().st_size reports for it. No entry is a symbolic link or a    *)
(* protected path, and no cancellation is requested.                       *)
(***************************************************************************)

\* The most entries a tree holds.
MaxEntries == 3

\* The trees: every entry lies in the target directory or in a directory
\* listed before it; a file has size 1 or 2, and a directory has the
\* st_size the file system reports for a directory, 0 or 1.
Trees ==
    UNION { { t \in [1..n -> [is_dir : BOOLEAN, size : 0..2, parent : 0..n]] :
                \A k \in 1..n :
                    /\ t[k].parent < k
                    /\ t[k].parent # 0 => t[t[k].parent].is_dir
                    /\ IF t[k].is_dir THEN t[k].size \in {0, 1} ELSE t[k].size \in {1, 2} }
            : n \in 0..MaxEntries }

\* CoreScanner._scan_directory: path.rglob('*') reports every entry below
\* directory d, directories included, and each one becomes a FileInfo.
RECURSIVE CoreScanner_scan_directory(_, _, _)
CoreScanner_scan_directory(tree, d, k) ==
    IF k > Len(tree) THEN <<>>
    ELSE (IF tree[k].parent = d
          THEN <<k>> \o (IF tree[k].is_dir
                         THEN CoreScanner_scan_directory(tree, k, k + 1)
                         ELSE <<>>)
          ELSE <<>>)
         \o CoreScanner_scan_directory(tree, d, k + 1)

\* OptimizedCoreScanner._scan_directory: os.scandir(d); a file becomes a
\* FileInfo, a directory is only descended into.
RECURSIVE OptimizedCoreScanner_scan_directory(_, _, _)
OptimizedCoreScanner_scan_directory(tree, d, k) ==
    IF k > Len(tree) THEN <<>>
    ELSE (IF tree[k].parent = d
          THEN (IF tree[k].is_dir
                THEN OptimizedCoreScanner_scan_directory(tree, k, k + 1)
                ELSE <<k>>)
          ELSE <<>>)
         \o OptimizedCoreScanner_scan_directory(tree, d, k + 1)

\* scan_single_target for an existing directory: the FileInfos of
\* _scan_directory are collected, total_size adds the size of each one, and
\* is_dir decides between dir_count and file_count.
scan_single_target(tree, variant) ==
    ScanResultOf(1, [entries |-> tree],
                 IF variant = "baseline"
                 THEN CoreScanner_scan_directory(tree, 0, 1)
                 ELSE OptimizedCoreScanner_scan_directory(tree, 0, 1),
                 FALSE)

Tree_Scan ==
    /\ tr_pc = "init"
    /\ tr_result' = scan_single_target(tr_tree, tr_variant)
    /\ tr_pc' = "done"
    /\ UNCHANGED <<tr_tree, tr_variant>>
    /\ UNCHANGED nonTreeVars

Tree_Next == Tree_Scan

(***************************************************************************)
(* ScanController._handle_scan_result: classification of scanned files     *)
(*   (src/src/controllers/scan_controller.py)                              *)
(*                                                                         *)
(* A scan that is not cancelled: the worker's loop handles each result the *)
(* scanner yields and appends it to _results. A file descriptor is named   *)
(* <<r, p>>: entry p of the files of result r.                             *)
(***************************************************************************)

\* RiskLevel: the enum's names.
RiskLevels == {"L1_SAFE", "L2_REVIEW", "L3_SYSTEM"}

\* The keys of _matched_files.
Buckets == RiskLevels \cup {"UNMATCHED"}

\* The results of the scan: a directory with a subdirectory and two files, a
\* target whose scan failed, and a directory with two files.
ClassifyResults ==
    << [error |-> FALSE,
        files |-> << [is_dir |-> TRUE,
                      info |-> [path |-> "C:\\Temp\\sub", name |-> "sub", ext |-> Lo(""), size |-> 1]],
                     [is_dir |-> FALSE,
                      info |-> [path |-> "C:\\Temp\\a.tmp", name |-> "a.tmp", ext |-> Lo(".tmp"), size |-> 1]],
                     [is_dir |-> FALSE,
                      info |-> [path |-> "C:\\Data\\c.log", name |-> "c.log", ext |-> Lo(".log"), size |-> 2]] >>],
       [error |-> TRUE, files |-> <<>>],
       [error |-> FALSE,
        files |-> << [is_dir |-> FALSE,
                      info |-> [path |-> "C:\\Temp\\b.TMP", name |-> "b.TMP", ext |-> Up(".tmp"), size |-> 2]],
                     [is_dir |-> FALSE,
                      info |-> [path |-> "C:\\Data\\d", name |-> "d", ext |-> Lo(""), size |-> 1]] >>] >>

\* A mutation of bucket_of: match.matched is not looked at, and
\* RuleMatch.risk_level answers L2_REVIEW when there is no rule.
bucket_of_Unconditional(rules, tiers, f) ==
    LET match == RuleEngine_match_file(rules, f)
    IN IF match.matched THEN tiers[match.rule] ELSE "L2_REVIEW"

\* The key of _matched_files a file is appended to: match.risk_level.name
\* when match.matched, 'UNMATCHED' otherwise.
bucket_of(rules, tiers, f) ==
    LET match == RuleEngine_match_file(rules, f)
    IN IF match.matched THEN tiers[match.rule] ELSE "UNMATCHED"

\* The loop of _handle_scan_result over result.files from entry p on:
\* directories are passed over, every other entry is appended to one list.
RECURSIVE handle_files(_, _, _, _, _, _)
handle_files(matched, rules, tiers, r, files, p) ==
    IF p > Len(files) THEN matched
    ELSE IF files[p].is_dir
         THEN handle_files(matched, rules, tiers, r, files, p + 1)
         ELSE LET b == bucket_of(rules, tiers, files[p].info)
              IN handle_files([matched EXCEPT ![b] = Append(@, <<r, p>>)],
                              rules, tiers, r, files, p + 1)

\* _handle_scan_result: a result that is not a success is only logged.
handle_scan_result(matched, rules, tiers, r, result) ==
    IF result.error THEN matched
    ELSE handle_files(matched, rules, tiers, r, result.files, 1)

\* One iteration of the worker's loop: the next result is handled and then
\* appended to _results.
Classify_Handle ==
    /\ cf_k < Len(cf_results)
    /\ cf_matched' = handle_scan_result(cf_matched, cf_rules, cf_tiers,
                                        cf_k + 1, cf_results[cf_k + 1])
    /\ cf_k' = cf_k + 1
    /\ UNCHANGED <<cf_rules, cf_tiers, cf_results>>
    /\ UNCHANGED nonClassifyVars

Classify_Next == Classify_Handle

(***************************************************************************)
(* EventBus  (src/src/utils/event_bus.py)                                  *)
(*                                                                         *)
(* One publisher thread; subscribe and unsubscribe may come from any       *)
(* thread at any time, the list being copied under _event_lock at the      *)
(* start of publish. eb_last records the publish call: the event type, the *)
(* copied list, the callbacks invoked so far in order, whether the call    *)
(* has ended, and whether it ended with an exception leaving publish.      *)
(***************************************************************************)

\* The most subscriptions held at once, over all event types.
MaxSubs == 3

\* Two of the EventType values.
EventTypes == {"scan_started", "scan_completed"}

\* The callbacks: a function that returns, a function that raises, and a
\* callable object without a __name__ attribute (a functools.partial, an
\* instance with __call__) that raises.
Callbacks ==
    { [id |-> "f", raises |-> FALSE, has_name |-> TRUE],
      [id |-> "g", raises |-> TRUE,  has_name |-> TRUE],
      [id |-> "p", raises |-> TRUE,  has_name |-> FALSE] }

NoPublish == [type |-> "none", subscribers |-> <<>>, invoked |-> <<>>,
              done |-> TRUE, escaped |-> FALSE]

\* list.remove: the first occurrence of c leaves the list.
RECURSIVE list_remove(_, _)
list_remove(l, c) ==
    IF l = <<>> THEN <<>>
    ELSE IF Head(l) = c THEN Tail(l)
    ELSE <<Head(l)>> \o list_remove(Tail(l), c)

\* subscribe: the callback is appended to the list of the type. (The
\* logger.debug line after the append reads callback.__name__ and raises
\* AttributeError for a callable without one; the callback stays appended.)
Bus_Subscribe(t, c) ==
    /\ Len(eb_subscribers["scan_started"]) + Len(eb_subscribers["scan_completed"]) < MaxSubs
    /\ eb_subscribers' = [eb_subscribers EXCEPT ![t] = Append(@, c)]
    /\ UNCHANGED <<eb_pc, eb_i, eb_last>>
    /\ UNCHANGED nonBusVars

\* unsubscribe of a callback that is in the list.
Bus_Unsubscribe(t, c) ==
    /\ \E k \in 1..Len(eb_subscribers[t]) : eb_subscribers[t][k] = c
    /\ eb_subscribers' = [eb_subscribers EXCEPT ![t] = list_remove(@, c)]
    /\ UNCHANGED <<eb_pc, eb_i, eb_last>>
    /\ UNCHANGED nonBusVars

\* publish: the list of the event's type is copied under the lock; with no
\* subscriber the call returns.
Bus_Publish(t) ==
    /\ eb_pc = "idle"
    /\ LET subscribers == eb_subscribers[t]
       IN /\ eb_last' = [type |-> t, subscribers |-> subscribers, invoked |-> <<>>,
                         done |-> subscribers = <<>>, escaped |-> FALSE]
          /\ eb_pc' = IF subscribers = <<>> THEN "idle" ELSE "deliver"
          /\ eb_i' = IF subscribers = <<>> THEN 0 ELSE 1
    /\ UNCHANGED eb_subscribers
    /\ UNCHANGED nonBusVars

\* A mutation of the loop body: no try/except around the call.
bus_call_escapes_Uncaught(c) == c.raises

\* Whether an exception leaves the loop body of publish when callback c is
\* called: an Exception raised by c is caught, and the handler's log line
\* reads callback.__name__, which raises AttributeError inside the handler
\* when c has none.
bus_call_escapes(c) == c.raises /\ ~c.has_name

\* publish: one turn of `for callback in subscribers`, on the publisher's
\* thread.
Bus_Deliver ==
    /\ eb_pc = "deliver"
    /\ LET c == eb_last.subscribers[eb_i]
           escapes == bus_call_escapes(c)
           last == eb_i = Len(eb_last.subscribers)
       IN /\ eb_last' = [eb_last EXCEPT !.invoked = Append(@, c),
                                        !.done = escapes \/ last,
                                        !.escaped = escapes]
          /\ eb_pc' = IF escapes \/ last THEN "idle" ELSE "deliver"
          /\ eb_i' = IF escapes \/ last THEN 0 ELSE eb_i + 1
    /\ UNCHANGED eb_subscribers
    /\ UNCHANGED nonBusVars

Bus_Next ==
    \/ \E t \in EventTypes, c \in Callbacks : Bus_Subscribe(t, c)
    \/ \E t \in EventTypes, c \in Callbacks : Bus_Unsubscribe(t, c)
    \/ \E t \in EventTypes : Bus_Publish(t)
    \/ Bus_Deliver

(***************************************************************************)
(* CleanController.preview_clean  (src/src/controllers/clean_controller.py)*)
(*                                                                         *)
(* Calls of preview_clean with one file list on one controller, in any     *)
(* system state, over the file system of the SecurityLayer section         *)
(* (current directory C:\).                                                *)
(***************************************************************************)

\* The longest file list previewed, and the most calls made.
MaxPreviewFiles == 2
MaxPreviews == 2

\* RECYCLE_BIN_THRESHOLD (1 GiB in the source), in the units of the sizes
\* below.
RECYCLE_BIN_THRESHOLD == 2

\* The FileInfos previewed: a temporary file, a file of a protected
\* directory, a system file outside the protected directories, a directory
\* without extension, a temporary file spelt in upper case, and a path that
\* does not exist.
PreviewFileInfos ==
    { [path |-> [rooted |-> TRUE, parts |-> <<Mx("temp"), Lo("a.tmp")>>], size |-> 1],
      [path |-> [rooted |-> TRUE, parts |-> <<Mx("windows"), Mx("system32"), Lo("k.dll")>>], size |-> 2],
      [path |-> [rooted |-> TRUE, parts |-> <<Mx("temp"), Lo("pagefile.sys")>>], size |-> 2],
      [path |-> [rooted |-> TRUE, parts |-> <<Mx("users")>>], size |-> 1],
      [path |-> [rooted |-> TRUE, parts |-> <<Mx("temp"), Up("a.tmp")>>], size |-> 1],
      [path |-> [rooted |-> TRUE, parts |-> <<Mx("windows"), Lo("zz.tmp")>>], size |-> 1] }

PreviewLists == UNION {[1..n -> PreviewFileInfos] : n \in 0..MaxPreviewFiles}

\* "system" in reason.lower() or "protected" in reason.lower(): the reason
\* of a missing path ends with the path itself.
reason_names_system(r, p) ==
    \/ r.reason \in {"Protected path", "System file"}
    \/ /\ r.reason = "File does not exist"
       /\ \E k \in 1..Len(p.parts) : p.parts[k][1] \in {"system32", "system volume information"}

\* The statistics preview_clean computes for a file list.
RECURSIVE preview_counts(_, _)
preview_counts(files, k) ==
    IF k = 0
    THEN [file_count |-> 0, total_size |-> 0, safe_files |-> 0, risky_files |-> 0,
          system_files |-> 0]
    ELSE LET c == preview_counts(files, k - 1)
             f == files[k]
             r == is_safe_to_delete(f.path, {}, HARDCODED_PROTECTED, <<>>)
             d == [c EXCEPT !.file_count = @ + 1, !.total_size = @ + f.size]
         IN IF ~r.safe
            THEN IF reason_names_system(r, f.path)
                 THEN [d EXCEPT !.system_files = @ + 1] ELSE d
            ELSE IF Suffix(f.path.parts[Len(f.path.parts)]) = Lo(".tmp")
                 THEN [d EXCEPT !.safe_files = @ + 1]
                 ELSE [d EXCEPT !.risky_files = @ + 1]

\* A mutation of preview_clean: a preview made after a confirmation moves
\* the safe files to the recycle bin and leaves the system in Cleaning.
preview_clean_Executes(files, conf, st, flag) ==
    LET c == preview_counts(files, Len(files))
    IN [stats |-> [c EXCEPT !.file_count = IF conf THEN 0 ELSE @],
        recycle_bin_warning |-> c.total_size > RECYCLE_BIN_THRESHOLD,
        confirmed |-> FALSE,
        state |-> IF conf THEN "cleaning" ELSE st, cancel_flag |-> flag,
        deleted |-> IF conf THEN {files[k].path : k \in 1..Len(files)} ELSE {}]

\* preview_clean(files) on a controller whose _confirmed is conf, the
\* StateManager holding st and flag: the dictionary returned, _confirmed
\* afterwards, the StateManager's state and cancel flag afterwards, and the
\* paths removed from the file system.
preview_clean(files, conf, st, flag) ==
    LET c == preview_counts(files, Len(files))
    IN [stats |-> c,
        recycle_bin_warning |-> c.total_size > RECYCLE_BIN_THRESHOLD,
        confirmed |-> FALSE,
        state |-> st, cancel_flag |-> flag,
        deleted |-> {}]

\* One call of preview_clean with the list.
Preview_Call ==
    /\ Len(pv_history) < MaxPreviews
    /\ LET r == preview_clean(pv_files, confirmed, state, cancel_flag)
       IN /\ pv_history' = Append(pv_history,
                               [files |-> pv_files, stats |-> r.stats,
                                recycle_bin_warning |-> r.recycle_bin_warning])
          /\ confirmed' = r.confirmed
          /\ state' = r.state
          /\ cancel_flag' = r.cancel_flag
          /\ pv_deleted' = pv_deleted \cup r.deleted
    /\ UNCHANGED <<pv_files, pv_start, result_queue, sm_last, ever_confirmed, latch,
                   engine_cancelled, callers, ncalls, workers>>
    /\ UNCHANGED nonPreviewVars

Preview_Next == Preview_Call

(***************************************************************************)
(* RuleEngine.load_rules  (src/src/core/rule_engine.py)                    *)
(*                                                                         *)
(* One call of load_rules on a freshly constructed engine, as              *)
(* ScanController.__init__ makes it. A rule is named by its id.            *)
(***************************************************************************)

\* The most entries the "rules" list of a configuration file holds.
MaxConfigRules == 3

\* An entry of the "rules" list: a well-formed rule, a dictionary without
\* the "id" key, or a value that is not a dictionary.
ConfigEntries == {"good_a", "good_b", "no_id", "not_dict"}

\* The configurations: no file; a file that is not JSON; a JSON value that
\* is not an object; an object with a "rules" list.
Configs ==
    { [kind |-> "missing", rules |-> <<>>],
      [kind |-> "unparseable", rules |-> <<>>],
      [kind |-> "not_object", rules |-> <<>>] }
    \cup { [kind |-> "object", rules |-> r] :
              r \in UNION {[1..n -> ConfigEntries] : n \in 0..MaxConfigRules} }

\* _create_default_rules: the ids of the built-in rules.
DefaultRules == <<"temp_files", "log_files", "cache_files">>

\* The loop of load_rules over config['rules'] from entry k on, acc being
\* self.rules so far. Rule.from_dict raises KeyError for a dictionary
\* without "id" and the entry is skipped; for a value that is not a
\* dictionary the handler's rule_data.get(...) raises itself and the
\* exception leaves the loop.
RECURSIVE load_entries(_, _, _)
load_entries(entries, k, acc) ==
    IF k > Len(entries) THEN [rules |-> acc, raised |-> FALSE]
    ELSE CASE entries[k] \in {"good_a", "good_b"} ->
                 load_entries(entries, k + 1, Append(acc, entries[k]))
           [] entries[k] = "no_id" -> load_entries(entries, k + 1, acc)
           [] entries[k] = "not_dict" -> [rules |-> acc, raised |-> TRUE]

\* load_rules on an engine whose rules are `before`: a missing file installs
\* the default rules; json.load of a file that is not JSON raises
\* JSONDecodeError, config.get of a value that is not an object raises
\* AttributeError, and both are raised again after logging, self.rules
\* untouched; otherwise self.rules is cleared and the entries are loaded.
load_rules(config, before) ==
    CASE config.kind = "missing" -> [rules |-> DefaultRules, raised |-> FALSE]
      [] config.kind \in {"unparseable", "not_object"} -> [rules |-> before, raised |-> TRUE]
      [] config.kind = "object" -> load_entries(config.rules, 1, <<>>)

\* ScanController.__init__: self.rule_engine.load_rules() inside try/except
\* Exception, which logs the failure and goes on.
Load_Rules ==
    /\ ld_pc = "init"
    /\ LET r == load_rules(ld_config, ld_rules)
       IN /\ ld_rules' = r.rules
          /\ ld_raised' = r.raised
    /\ ld_pc' = "done"
    /\ UNCHANGED ld_config
    /\ UNCHANGED nonLoadVars

Load_Next == Load_Rules

(***************************************************************************)
(* AppAnalyzer._merge_clusters  (src/src/core/analyzer.py)                 *)
(*                                                                         *)
(* A cluster is [app_name, total_size]; an entry of the merged dictionary  *)
(* is [key, members, total_size], members being the positions in the input *)
(* list of the clusters merged into it, the first one being the cluster    *)
(* object that is kept.                                                    *)
(***************************************************************************)

\* The longest cluster list merged.
MaxClusters == 3

\* The application names: one name in two spellings, two longer names that
\* begin with it, and an unrelated one.
AppNames == {"MyApp", "myapp", "myapp1", "myapp123", "other"}

\* str.lower().
str_lower(n) == IF n = "MyApp" THEN "myapp" ELSE n

\* len() of a lower-case name.
str_len(n) ==
    CASE n = "myapp" -> 5 [] n = "myapp1" -> 6 [] n = "myapp123" -> 8 [] n = "other" -> 5

\* The number of matching characters SequenceMatcher finds between two
\* lower-case names: the shorter name when both begin with "myapp", none
\* with the unrelated name.
matching_chars(a, b) ==
    IF a = b THEN str_len(a)
    ELSE IF a = "other" \/ b = "other" THEN 0
    ELSE IF str_len(a) < str_len(b) THEN str_len(a) ELSE str_len(b)

\* SequenceMatcher(None, a, b).ratio() > 0.8, the ratio being 2*M/T.
similar(a, b) == 10 * (2 * matching_chars(a, b)) > 8 * (str_len(a) + str_len(b))

ClusterLists ==
    UNION {[1..n -> [app_name : AppNames, total_size : {1, 2}]] : n \in 0..MaxClusters}

\* A mutation of merged_key_of: only an equal name is looked for.
merged_key_of_ExactOnly(merged, app_name) == app_name

\* The key a cluster is filed under: the first existing key, in insertion
\* order, whose similarity with the lower-case name exceeds 0.8, else the
\* lower-case name itself.
merged_key_of(merged, app_name) ==
    LET hits == {i \in 1..Len(merged) : similar(app_name, merged[i].key)}
    IN IF hits = {} THEN app_name
       ELSE merged[CHOOSE i \in hits : \A j \in hits : i <= j].key

\* The loop of _merge_clusters from cluster k on.
RECURSIVE merge_from(_, _, _)
merge_from(clusters, k, merged) ==
    IF k > Len(clusters) THEN merged
    ELSE LET app_name == str_lower(clusters[k].app_name)
             merged_key == merged_key_of(merged, app_name)
             at == {i \in 1..Len(merged) : merged[i].key = merged_key}
         IN IF at # {}
            THEN LET i == CHOOSE x \in at : TRUE
                 IN merge_from(clusters, k + 1,
                       [merged EXCEPT ![i].members = Append(@, k),
                                      ![i].total_size = @ + clusters[k].total_size])
            ELSE merge_from(clusters, k + 1,
                       Append(merged, [key |-> app_name, members |-> <<k>>,
                                       total_size |-> clusters[k].total_size]))

\* _merge_clusters(clusters).
Merge_Clusters ==
    /\ mg_pc = "init"
    /\ mg_merged' = merge_from(mg_clusters, 1, <<>>)
    /\ mg_pc' = "done"
    /\ UNCHANGED mg_clusters
    /\ UNCHANGED nonMergeVars

Merge_Next == Merge_Clusters

(***************************************************************************)
(* ScanCache  (src/src/core/scanner.py)                                    *)
(*                                                                         *)
(* The cache is a dictionary keyed by resolved path; only which paths have *)
(* an entry matters for when it is written. Writing the file succeeds.     *)
(***************************************************************************)

\* The paths the scanner meets.
MaxCachePaths == 5
CachePaths == 1..MaxCachePaths

\* set() writes the file when len(self.cache) is a multiple of this (100 in
\* the source).
FLUSH_EVERY == 3

\* A mutation of set_saves: the file is written on every set.
set_saves_Always(cache) == TRUE

\* Whether set() writes the file, cache being the dictionary after the
\* assignment: len(self.cache) % 100 == 0.
set_saves(cache) == Cardinality(cache) % FLUSH_EVERY = 0

\* ScanCache.set(path, size, timestamp), for a new path or one that already
\* has an entry.
Cache_Set(p) ==
    /\ ch_cache' = ch_cache \cup {p}
    /\ ch_unsaved' = IF set_saves(ch_cache \cup {p}) THEN {} ELSE ch_unsaved \cup {p}
    /\ UNCHANGED nonCacheVars

\* ScanCache.remove(path) of a path that has an entry: the file is written.
Cache_Remove(p) ==
    /\ p \in ch_cache
    /\ ch_cache' = ch_cache \ {p}
    /\ ch_unsaved' = {}
    /\ UNCHANGED nonCacheVars

\* ScanCache.clear(): the file is written.
Cache_Clear ==
    /\ ch_cache' = {}
    /\ ch_unsaved' = {}
    /\ UNCHANGED nonCacheVars

Cache_Next ==
    \/ \E p \in CachePaths : Cache_Set(p)
    \/ \E p \in CachePaths : Cache_Remove(p)
    \/ Cache_Clear

(***************************************************************************)
(* CleanController, as one client uses it  (src/src/controllers/           *)
(* clean_controller.py)                                                    *)
(*                                                                         *)
(* One thread calls preview_clean, confirm_clean, start_clean and          *)
(* reset_confirmation one after the other and waits for the end of every   *)
(* clean it started (wait_for_completion) before its next call, so the     *)
(* state is Idle between two calls. A file is a name; a list of files is   *)
(* the set of its names. cs_log records every call with its arguments, its *)
(* return value and, for a clean that ran, the files it deleted.           *)
(***************************************************************************)

\* Bound on the number of calls of one client.
MaxSessionCalls == 3

\* The files a client can name.
SessionFiles == {"a", "b"}

\* A call that is no start_clean deletes nothing.
NoDeletion == {}

\* start_clean(files, require_confirmation) up to the start of the worker:
\* the value returned and the state it leaves.
start_clean(files, require_confirmation, conf, st, flag) ==
    IF st # "idle" THEN [ret |-> FALSE, state |-> st, cancel_flag |-> flag]
    ELSE IF files = {} THEN [ret |-> FALSE, state |-> st, cancel_flag |-> flag]
    ELSE IF ~confirmation_ok(require_confirmation, conf)
         THEN [ret |-> FALSE, state |-> st, cancel_flag |-> flag]
    ELSE LET r == transition_to(st, flag, "cleaning")
         IN [ret |-> ~r.raised, state |-> r.state, cancel_flag |-> r.cancel_flag]

\* preview_clean(files): the list is stored and the confirmation withdrawn.
Session_Preview(files) ==
    /\ Len(cs_log) < MaxSessionCalls
    /\ cs_preview_files' = files
    /\ confirmed' = FALSE
    /\ cs_log' = Append(cs_log, [op |-> "preview_clean", files |-> files,
                                 req |-> FALSE, ret |-> TRUE, deleted |-> NoDeletion])
    /\ UNCHANGED <<smVars, ever_confirmed, latch, engine_cancelled, callers,
                   ncalls, workers>>
    /\ UNCHANGED nonSessionVars

\* confirm_clean().
Session_Confirm ==
    /\ Len(cs_log) < MaxSessionCalls
    /\ confirmed' = TRUE
    /\ ever_confirmed' = TRUE
    /\ cs_log' = Append(cs_log, [op |-> "confirm_clean", files |-> {},
                                 req |-> FALSE, ret |-> TRUE, deleted |-> NoDeletion])
    /\ UNCHANGED <<smVars, latch, engine_cancelled, callers, ncalls, workers,
                   cs_preview_files>>
    /\ UNCHANGED nonSessionVars

\* start_clean(files, require_confirmation) and, when it returned True, the
\* clean it started, to its end: CleanerExecutor.clean deletes the files of
\* the list that the security layer lets through, the worker goes back to
\* Idle and sets the completion event.
Session_StartClean(files, require_confirmation, deleted) ==
    LET r == start_clean(files, require_confirmation, confirmed, state, cancel_flag)
        back == transition_to(r.state, r.cancel_flag, "idle")
    IN /\ Len(cs_log) < MaxSessionCalls
       /\ deleted \subseteq files
       /\ ~r.ret => deleted = NoDeletion
       /\ state' = IF r.ret THEN back.state ELSE r.state
       /\ cancel_flag' = IF r.ret THEN back.cancel_flag ELSE r.cancel_flag
       /\ latch' = IF r.ret THEN [latch EXCEPT !["clean"] = TRUE] ELSE latch
       /\ cs_log' = Append(cs_log, [op |-> "start_clean", files |-> files,
                                    req |-> require_confirmation, ret |-> r.ret,
                                    deleted |-> deleted])
       /\ UNCHANGED <<result_queue, sm_last, confirmed, ever_confirmed,
                      engine_cancelled, callers, ncalls, workers, cs_preview_files>>
       /\ UNCHANGED nonSessionVars

\* reset_confirmation().
Session_Reset ==
    /\ Len(cs_log) < MaxSessionCalls
    /\ confirmed' = FALSE
    /\ cs_preview_files' = {}
    /\ cs_log' = Append(cs_log, [op |-> "reset_confirmation", files |-> {},
                                 req |-> FALSE, ret |-> TRUE, deleted |-> NoDeletion])
    /\ UNCHANGED <<smVars, ever_confirmed, latch, engine_cancelled, callers,
                   ncalls, workers>>
    /\ UNCHANGED nonSessionVars

Session_Next ==
    \/ \E files \in SUBSET SessionFiles : Session_Preview(files)
    \/ Session_Confirm
    \/ \E files \in SUBSET SessionFiles, req \in BOOLEAN, deleted \in SUBSET SessionFiles :
          Session_StartClean(files, req, deleted)
    \/ Session_Reset

(***************************************************************************)
(* add_rule and remove_rule on an OptimizedRuleEngine                      *)
(*   (src/src/core/rule_engine.py, src/src/core/rule_engine_optimized.py)  *)
(*                                                                         *)
(* OptimizedRuleEngine inherits add_rule and remove_rule from RuleEngine:  *)
(* both rebuild rule_index as a RuleIndex, the class of the base engine,   *)
(* which has no get_rules_by_extension, and neither touches match_cache.   *)
(* The rule removed is the last of the list, so that the position by which *)
(* an earlier match names a rule stays the position of that rule.          *)
(***************************************************************************)

\* Bound on the number of add_rule and remove_rule calls.
MaxEdits == 2

\* No match_file call made yet on the engine.
NoEditCall ==
    [called |-> FALSE, path |-> "none", raised |-> FALSE, hit |-> FALSE,
     opt |-> NoMatch, fresh |-> NoMatch, edits |-> 0]

\* RuleEngine.add_rule: self.rules.append(rule).
add_rule(rules, rule) == Append(rules, rule)

\* RuleEngine.remove_rule(rule_id) with the id of the last rule.
remove_rule(rules) == SubSeq(rules, 1, Len(rules) - 1)

\* add_rule(rule) on the optimized engine.
Edit_AddRule(rule) ==
    /\ ed_edits < MaxEdits
    /\ Len(re_rules) < MaxRules
    /\ re_rules' = add_rule(re_rules, rule)
    /\ ed_index' = "base"
    /\ ed_edits' = ed_edits + 1
    /\ UNCHANGED <<match_cache, re_inserts, re_last, ed_last>>
    /\ UNCHANGED nonEditVars

\* remove_rule(rule_id) on the optimized engine, the rule being there.
Edit_RemoveRule ==
    /\ ed_edits < MaxEdits
    /\ Len(re_rules) > 0
    /\ re_rules' = remove_rule(re_rules)
    /\ ed_index' = "base"
    /\ ed_edits' = ed_edits + 1
    /\ UNCHANGED <<match_cache, re_inserts, re_last, ed_last>>
    /\ UNCHANGED nonEditVars

\* OptimizedRuleEngine.match_file(f): a cached match is returned as it is;
\* on a miss rule_index.get_rules_by_extension is called, which raises
\* AttributeError when rule_index is a RuleIndex. `fresh` is what an
\* OptimizedRuleEngine just built with the current rule list returns.
Edit_MatchFile(f) ==
    LET at == cache_index(match_cache, f.path)
        fresh == optimized_match(re_rules, f)
        raised == at = 0 /\ ed_index = "base"
    IN /\ at # 0 \/ re_inserts < MaxInserts
       /\ match_cache' = IF at # 0 \/ raised THEN match_cache
                         ELSE cache_match(match_cache, f.path, fresh, re_inserts + 1)
       /\ re_inserts' = IF at # 0 \/ raised THEN re_inserts ELSE re_inserts + 1
       /\ ed_last' = [called |-> TRUE, path |-> f.path, raised |-> raised,
                      hit |-> at # 0,
                      opt |-> IF at # 0 THEN match_cache[at].match
                              ELSE IF raised THEN NoMatch ELSE fresh,
                      fresh |-> fresh, edits |-> ed_edits]
       /\ UNCHANGED <<re_rules, re_last, ed_index, ed_edits>>
       /\ UNCHANGED nonEditVars

Edit_Next ==
    \/ \E rule \in Rules : Edit_AddRule(rule)
    \/ Edit_RemoveRule
    \/ \E f \in FileInfos : Edit_MatchFile(f)

(***************************************************************************)
(* StateManager.__new__ and EventBus.__new__                               *)
(*   (src/src/controllers/state_manager.py, src/src/utils/event_bus.py)    *)
(*                                                                         *)
(* Double-checked locking: the first test of cls._instance is made without *)
(* the lock; under the lock the object is made, stored in cls._instance,   *)
(* and then its fields are assigned one by one. Each thread calls the      *)
(* constructor once; a step is one statement.                              *)
(***************************************************************************)

\* The fields __new__ assigns after storing the object in cls._instance.
InstanceFields(class) ==
    IF class = "StateManager"
    THEN <<"_state", "_state_lock", "_cancel_flag", "_result_queue">>
    ELSE <<"_subscribers", "_event_lock">>

\* `if cls._instance is None:` without the lock.
New_Check1(t) ==
    /\ si_pc[t] = "check1"
    /\ si_pc' = [si_pc EXCEPT ![t] = IF si_instance.id = 0 THEN "acquire" ELSE "return"]
    /\ UNCHANGED <<si_class, si_instance, si_made, si_lock, si_got>>
    /\ UNCHANGED nonSingletonVars

\* `with cls._lock:` entered.
New_Acquire(t) ==
    /\ si_pc[t] = "acquire"
    /\ si_lock = "none"
    /\ si_lock' = t
    /\ si_pc' = [si_pc EXCEPT ![t] = "check2"]
    /\ UNCHANGED <<si_class, si_instance, si_made, si_got>>
    /\ UNCHANGED nonSingletonVars

\* `if cls._instance is None:` under the lock.
New_Check2(t) ==
    /\ si_pc[t] = "check2"
    /\ si_pc' = [si_pc EXCEPT ![t] = IF si_instance.id = 0 THEN "create" ELSE "release"]
    /\ UNCHANGED <<si_class, si_instance, si_made, si_lock, si_got>>
    /\ UNCHANGED nonSingletonVars

\* `cls._instance = super().__new__(cls)`.
New_Create(t) ==
    /\ si_pc[t] = "create"
    /\ si_made' = si_made + 1
    /\ si_instance' = [id |-> si_made + 1, fields |-> 0]
    /\ si_pc' = [si_pc EXCEPT ![t] = "fields"]
    /\ UNCHANGED <<si_class, si_lock, si_got>>
    /\ UNCHANGED nonSingletonVars

\* `cls._instance.<field> = ...`, the next field; after the last one the
\* with block is left.
New_SetField(t) ==
    /\ si_pc[t] = "fields"
    /\ si_instance' = [si_instance EXCEPT !.fields = @ + 1]
    /\ si_pc' = [si_pc EXCEPT ![t] =
          IF si_instance.fields + 1 = Len(InstanceFields(si_class))
          THEN "release" ELSE "fields"]
    /\ UNCHANGED <<si_class, si_made, si_lock, si_got>>
    /\ UNCHANGED nonSingletonVars

\* The with block is left: cls._lock is released.
New_Release(t) ==
    /\ si_pc[t] = "release"
    /\ si_lock' = "none"
    /\ si_pc' = [si_pc EXCEPT ![t] = "return"]
    /\ UNCHANGED <<si_class, si_instance, si_made, si_got>>
    /\ UNCHANGED nonSingletonVars

\* `return cls._instance`.
New_Return(t) ==
    /\ si_pc[t] = "return"
    /\ si_got' = [si_got EXCEPT ![t] = si_instance]
    /\ si_pc' = [si_pc EXCEPT ![t] = "done"]
    /\ UNCHANGED <<si_class, si_instance, si_made, si_lock>>
    /\ UNCHANGED nonSingletonVars

New_Next ==
    \/ \E t \in Callers : New_Check1(t)
    \/ \E t \in Callers : New_Acquire(t)
    \/ \E t \in Callers : New_Check2(t)
    \/ \E t \in Callers : New_Create(t)
    \/ \E t \in Callers : New_SetField(t)
    \/ \E t \in Callers : New_Release(t)
    \/ \E t \in Callers : New_Return(t)

(***************************************************************************)
(* Specifications                                                          *)
(***************************************************************************)

\* The state after construction.
\*   StateManager.__new__: IDLE, the cancel flag False, the result queue empty.
\*   The controllers' __init__: nothing confirmed, the completion events
\*   clear, no worker thread; the engines' _cancelled False.
Init ==
    /\ state = "idle"
    /\ cancel_flag = FALSE
    /\ result_queue = <<>>
    /\ sm_last = NoCall
    /\ confirmed = FALSE
    /\ ever_confirmed = FALSE
    /\ latch = [k \in Kinds |-> FALSE]
    /\ engine_cancelled = [k \in Kinds |-> FALSE]
    /\ callers = [c \in Callers |-> IdleCaller]
    /\ ncalls = 0
    /\ workers = [i \in CallIds |-> NoWorker]
    /\ cl_files = <<>>
    /\ cl_fates = <<>>
    /\ cl_pc = "init"
    /\ cl_idx = 0
    /\ cl_result = NewCleanResult
    /\ cl_events = <<>>
    /\ cl_log = <<>>
    /\ sec_cwd = <<>>
    /\ sec_protected = HARDCODED_PROTECTED
    /\ sec_path = [rooted |-> TRUE, parts |-> <<Mx("temp")>>]
    /\ sec_whitelist = {}
    /\ sec_pc = "init"
    /\ sec_result = [safe |-> FALSE, reason |-> "none"]
    /\ re_rules = <<>>
    /\ match_cache = <<>>
    /\ re_inserts = 0
    /\ re_last = NoMatchCall
    /\ sc_targets = <<>>
    /\ sc_pc = "start"
    /\ sc_t = 0
    /\ sc_i = 0
    /\ sc_files = <<>>
    /\ sc_pending = NoResult
    /\ sc_resume = "none"
    /\ sc_yielded = <<>>
    /\ sc_results = <<>>
    /\ sc_events = <<>>
    /\ sc_cancel_pc = "none"
    /\ sc_raced = FALSE
    /\ sc_cut = FALSE
    /\ tr_tree = <<>>
    /\ tr_variant = "baseline"
    /\ tr_pc = "init"
    /\ tr_result = NoResult
    /\ cf_rules = <<>>
    /\ cf_tiers = <<>>
    /\ cf_results = <<>>
    /\ cf_k = 0
    /\ cf_matched = [b \in Buckets |-> <<>>]
    /\ eb_subscribers = [t \in EventTypes |-> <<>>]
    /\ eb_pc = "idle"
    /\ eb_i = 0
    /\ eb_last = NoPublish
    /\ pv_files = <<>>
    /\ pv_history = <<>>
    /\ pv_deleted = {}
    /\ pv_start = [state |-> "idle", cancel_flag |-> FALSE]
    /\ ld_config = [kind |-> "missing", rules |-> <<>>]
    /\ ld_pc = "init"
    /\ ld_rules = <<>>
    /\ ld_raised = FALSE
    /\ mg_clusters = <<>>
    /\ mg_pc = "init"
    /\ mg_merged = <<>>
    /\ ch_cache = {}
    /\ ch_unsaved = {}
    /\ cs_preview_files = {}
    /\ cs_log = <<>>
    /\ ed_index = "optimized"
    /\ ed_edits = 0
    /\ ed_last = NoEditCall
    /\ si_class = "StateManager"
    /\ si_instance = [id |-> 0, fields |-> 0]
    /\ si_made = 0
    /\ si_lock = "none"
    /\ si_pc = [t \in Callers |-> "check1"]
    /\ si_got = [t \in Callers |-> [id |-> 0, fields |-> 0]]

\* StateManager alone.
SpecSM == Init /\ [][SM_Next]_vars

\* The controllers with their callers and workers, over the shared StateManager.
SpecCtl == Init /\ [][Ctl_Next]_vars

\* A call of CleanerExecutor.clean on a freshly constructed executor, for
\* every file list.
InitClean ==
    /\ state = "cleaning"
    /\ cancel_flag = FALSE
    /\ result_queue = <<>>
    /\ sm_last = NoCall
    /\ confirmed = FALSE
    /\ ever_confirmed = FALSE
    /\ latch = [k \in Kinds |-> FALSE]
    /\ engine_cancelled = [k \in Kinds |-> FALSE]
    /\ callers = [c \in Callers |-> IdleCaller]
    /\ ncalls = 0
    /\ workers = [i \in CallIds |-> NoWorker]
    /\ cl_files \in FileLists
    /\ cl_fates = [i \in 1..Len(cl_files) |-> "any"]
    /\ cl_pc = "init"
    /\ cl_idx = 0
    /\ cl_result = NewCleanResult
    /\ cl_events = <<>>
    /\ cl_log = <<>>
    /\ sec_cwd = <<>>
    /\ sec_protected = HARDCODED_PROTECTED
    /\ sec_path = [rooted |-> TRUE, parts |-> <<Mx("temp")>>]
    /\ sec_whitelist = {}
    /\ sec_pc = "init"
    /\ sec_result = [safe |-> FALSE, reason |-> "none"]
    /\ re_rules = <<>>
    /\ match_cache = <<>>
    /\ re_inserts = 0
    /\ re_last = NoMatchCall
    /\ sc_targets = <<>>
    /\ sc_pc = "start"
    /\ sc_t = 0
    /\ sc_i = 0
    /\ sc_files = <<>>
    /\ sc_pending = NoResult
    /\ sc_resume = "none"
    /\ sc_yielded = <<>>
    /\ sc_results = <<>>
    /\ sc_events = <<>>
    /\ sc_cancel_pc = "none"
    /\ sc_raced = FALSE
    /\ sc_cut = FALSE
    /\ tr_tree = <<>>
    /\ tr_variant = "baseline"
    /\ tr_pc = "init"
    /\ tr_result = NoResult
    /\ cf_rules = <<>>
    /\ cf_tiers = <<>>
    /\ cf_results = <<>>
    /\ cf_k = 0
    /\ cf_matched = [b \in Buckets |-> <<>>]
    /\ eb_subscribers = [t \in EventTypes |-> <<>>]
    /\ eb_pc = "idle"
    /\ eb_i = 0
    /\ eb_last = NoPublish
    /\ pv_files = <<>>
    /\ pv_history = <<>>
    /\ pv_deleted = {}
    /\ pv_start = [state |-> "idle", cancel_flag |-> FALSE]
    /\ ld_config = [kind |-> "missing", rules |-> <<>>]
    /\ ld_pc = "init"
    /\ ld_rules = <<>>
    /\ ld_raised = FALSE
    /\ mg_clusters = <<>>
    /\ mg_pc = "init"
    /\ mg_merged = <<>>
    /\ ch_cache = {}
    /\ ch_unsaved = {}
    /\ cs_preview_files = {}
    /\ cs_log = <<>>
    /\ ed_index = "optimized"
    /\ ed_edits = 0
    /\ ed_last = NoEditCall
    /\ si_class = "StateManager"
    /\ si_instance = [id |-> 0, fields |-> 0]
    /\ si_made = 0
    /\ si_lock = "none"
    /\ si_pc = [t \in Callers |-> "check1"]
    /\ si_got = [t \in Callers |-> [id |-> 0, fields |-> 0]]

SpecClean == InitClean /\ [][Clean_Next]_vars

\* The file system of the scenario of five files: the third path does not
\* exist, the other four are existing files that can be deleted.
MissingThirdFates == <<"deletable", "deletable", "missing", "deletable", "deletable">>

\* The call of CleanerExecutor.clean that the worker of a confirmed
\* CleanController makes with a list of five files of which the third does
\* not exist, for every assignment of sizes.
InitCleanMissingThird ==
    /\ state = "cleaning"
    /\ cancel_flag = FALSE
    /\ result_queue = <<>>
    /\ sm_last = NoCall
    /\ confirmed = FALSE
    /\ ever_confirmed = FALSE
    /\ latch = [k \in Kinds |-> FALSE]
    /\ engine_cancelled = [k \in Kinds |-> FALSE]
    /\ callers = [c \in Callers |-> IdleCaller]
    /\ ncalls = 0
    /\ workers = [i \in CallIds |-> NoWorker]
    /\ cl_files \in [1..Len(MissingThirdFates) -> FileSizes]
    /\ cl_fates = MissingThirdFates
    /\ cl_pc = "init"
    /\ cl_idx = 0
    /\ cl_result = NewCleanResult
    /\ cl_events = <<>>
    /\ cl_log = <<>>
    /\ sec_cwd = <<>>
    /\ sec_protected = HARDCODED_PROTECTED
    /\ sec_path = [rooted |-> TRUE, parts |-> <<Mx("temp")>>]
    /\ sec_whitelist = {}
    /\ sec_pc = "init"
    /\ sec_result = [safe |-> FALSE, reason |-> "none"]
    /\ re_rules = <<>>
    /\ match_cache = <<>>
    /\ re_inserts = 0
    /\ re_last = NoMatchCall
    /\ sc_targets = <<>>
    /\ sc_pc = "start"
    /\ sc_t = 0
    /\ sc_i = 0
    /\ sc_files = <<>>
    /\ sc_pending = NoResult
    /\ sc_resume = "none"
    /\ sc_yielded = <<>>
    /\ sc_results = <<>>
    /\ sc_events = <<>>
    /\ sc_cancel_pc = "none"
    /\ sc_raced = FALSE
    /\ sc_cut = FALSE
    /\ tr_tree = <<>>
    /\ tr_variant = "baseline"
    /\ tr_pc = "init"
    /\ tr_result = NoResult
    /\ cf_rules = <<>>
    /\ cf_tiers = <<>>
    /\ cf_results = <<>>
    /\ cf_k = 0
    /\ cf_matched = [b \in Buckets |-> <<>>]
    /\ eb_subscribers = [t \in EventTypes |-> <<>>]
    /\ eb_pc = "idle"
    /\ eb_i = 0
    /\ eb_last = NoPublish
    /\ pv_files = <<>>
    /\ pv_history = <<>>
    /\ pv_deleted = {}
    /\ pv_start = [state |-> "idle", cancel_flag |-> FALSE]
    /\ ld_config = [kind |-> "missing", rules |-> <<>>]
    /\ ld_pc = "init"
    /\ ld_rules = <<>>
    /\ ld_raised = FALSE
    /\ mg_clusters = <<>>
    /\ mg_pc = "init"
    /\ mg_merged = <<>>
    /\ ch_cache = {}
    /\ ch_unsaved = {}
    /\ cs_preview_files = {}
    /\ cs_log = <<>>
    /\ ed_index = "optimized"
    /\ ed_edits = 0
    /\ ed_last = NoEditCall
    /\ si_class = "StateManager"
    /\ si_instance = [id |-> 0, fields |-> 0]
    /\ si_made = 0
    /\ si_lock = "none"
    /\ si_pc = [t \in Callers |-> "check1"]
    /\ si_got = [t \in Callers |-> [id |-> 0, fields |-> 0]]

SpecCleanMissingThird == InitCleanMissingThird /\ [][Clean_Next]_vars

\* A call of is_safe_to_delete, for every query path, current directory and
\* whitelist, after at most one add_protected_path.
InitSec ==
    /\ state = "idle"
    /\ cancel_flag = FALSE
    /\ result_queue = <<>>
    /\ sm_last = NoCall
    /\ confirmed = FALSE
    /\ ever_confirmed = FALSE
    /\ latch = [k \in Kinds |-> FALSE]
    /\ engine_cancelled = [k \in Kinds |-> FALSE]
    /\ callers = [c \in Callers |-> IdleCaller]
    /\ ncalls = 0
    /\ workers = [i \in CallIds |-> NoWorker]
    /\ cl_files = <<>>
    /\ cl_fates = <<>>
    /\ cl_pc = "init"
    /\ cl_idx = 0
    /\ cl_result = NewCleanResult
    /\ cl_events = <<>>
    /\ cl_log = <<>>
    /\ sec_cwd \in WorkingDirs
    /\ sec_protected = HARDCODED_PROTECTED
    /\ sec_path \in QueryPaths
    /\ sec_whitelist \in Whitelists
    /\ sec_pc = "init"
    /\ sec_result = [safe |-> FALSE, reason |-> "none"]
    /\ re_rules = <<>>
    /\ match_cache = <<>>
    /\ re_inserts = 0
    /\ re_last = NoMatchCall
    /\ sc_targets = <<>>
    /\ sc_pc = "start"
    /\ sc_t = 0
    /\ sc_i = 0
    /\ sc_files = <<>>
    /\ sc_pending = NoResult
    /\ sc_resume = "none"
    /\ sc_yielded = <<>>
    /\ sc_results = <<>>
    /\ sc_events = <<>>
    /\ sc_cancel_pc = "none"
    /\ sc_raced = FALSE
    /\ sc_cut = FALSE
    /\ tr_tree = <<>>
    /\ tr_variant = "baseline"
    /\ tr_pc = "init"
    /\ tr_result = NoResult
    /\ cf_rules = <<>>
    /\ cf_tiers = <<>>
    /\ cf_results = <<>>
    /\ cf_k = 0
    /\ cf_matched = [b \in Buckets |-> <<>>]
    /\ eb_subscribers = [t \in EventTypes |-> <<>>]
    /\ eb_pc = "idle"
    /\ eb_i = 0
    /\ eb_last = NoPublish
    /\ pv_files = <<>>
    /\ pv_history = <<>>
    /\ pv_deleted = {}
    /\ pv_start = [state |-> "idle", cancel_flag |-> FALSE]
    /\ ld_config = [kind |-> "missing", rules |-> <<>>]
    /\ ld_pc = "init"
    /\ ld_rules = <<>>
    /\ ld_raised = FALSE
    /\ mg_clusters = <<>>
    /\ mg_pc = "init"
    /\ mg_merged = <<>>
    /\ ch_cache = {}
    /\ ch_unsaved = {}
    /\ cs_preview_files = {}
    /\ cs_log = <<>>
    /\ ed_index = "optimized"
    /\ ed_edits = 0
    /\ ed_last = NoEditCall
    /\ si_class = "StateManager"
    /\ si_instance = [id |-> 0, fields |-> 0]
    /\ si_made = 0
    /\ si_lock = "none"
    /\ si_pc = [t \in Callers |-> "check1"]
    /\ si_got = [t \in Callers |-> [id |-> 0, fields |-> 0]]

SpecSec == InitSec /\ [][Sec_Next]_vars

\* Both rule engines loaded with one rule list, for every rule list.
InitRule ==
    /\ state = "idle"
    /\ cancel_flag = FALSE
    /\ result_queue = <<>>
    /\ sm_last = NoCall
    /\ confirmed = FALSE
    /\ ever_confirmed = FALSE
    /\ latch = [k \in Kinds |-> FALSE]
    /\ engine_cancelled = [k \in Kinds |-> FALSE]
    /\ callers = [c \in Callers |-> IdleCaller]
    /\ ncalls = 0
    /\ workers = [i \in CallIds |-> NoWorker]
    /\ cl_files = <<>>
    /\ cl_fates = <<>>
    /\ cl_pc = "init"
    /\ cl_idx = 0
    /\ cl_result = NewCleanResult
    /\ cl_events = <<>>
    /\ cl_log = <<>>
    /\ sec_cwd = <<>>
    /\ sec_protected = HARDCODED_PROTECTED
    /\ sec_path = [rooted |-> TRUE, parts |-> <<Mx("temp")>>]
    /\ sec_whitelist = {}
    /\ sec_pc = "init"
    /\ sec_result = [safe |-> FALSE, reason |-> "none"]
    /\ re_rules \in RuleLists
    /\ match_cache = <<>>
    /\ re_inserts = 0
    /\ re_last = NoMatchCall
    /\ sc_targets = <<>>
    /\ sc_pc = "start"
    /\ sc_t = 0
    /\ sc_i = 0
    /\ sc_files = <<>>
    /\ sc_pending = NoResult
    /\ sc_resume = "none"
    /\ sc_yielded = <<>>
    /\ sc_results = <<>>
    /\ sc_events = <<>>
    /\ sc_cancel_pc = "none"
    /\ sc_raced = FALSE
    /\ sc_cut = FALSE
    /\ tr_tree = <<>>
    /\ tr_variant = "baseline"
    /\ tr_pc = "init"
    /\ tr_result = NoResult
    /\ cf_rules = <<>>
    /\ cf_tiers = <<>>
    /\ cf_results = <<>>
    /\ cf_k = 0
    /\ cf_matched = [b \in Buckets |-> <<>>]
    /\ eb_subscribers = [t \in EventTypes |-> <<>>]
    /\ eb_pc = "idle"
    /\ eb_i = 0
    /\ eb_last = NoPublish
    /\ pv_files = <<>>
    /\ pv_history = <<>>
    /\ pv_deleted = {}
    /\ pv_start = [state |-> "idle", cancel_flag |-> FALSE]
    /\ ld_config = [kind |-> "missing", rules |-> <<>>]
    /\ ld_pc = "init"
    /\ ld_rules = <<>>
    /\ ld_raised = FALSE
    /\ mg_clusters = <<>>
    /\ mg_pc = "init"
    /\ mg_merged = <<>>
    /\ ch_cache = {}
    /\ ch_unsaved = {}
    /\ cs_preview_files = {}
    /\ cs_log = <<>>
    /\ ed_index = "optimized"
    /\ ed_edits = 0
    /\ ed_last = NoEditCall
    /\ si_class = "StateManager"
    /\ si_instance = [id |-> 0, fields |-> 0]
    /\ si_made = 0
    /\ si_lock = "none"
    /\ si_pc = [t \in Callers |-> "check1"]
    /\ si_got = [t \in Callers |-> [id |-> 0, fields |-> 0]]

SpecRule == InitRule /\ [][Rule_Next]_vars

\* One scan: start_scan has moved the state to Scanning and started the
\* worker, for every target list.
InitScan ==
    /\ state = "scanning"
    /\ cancel_flag = FALSE
    /\ result_queue = <<>>
    /\ sm_last = NoCall
    /\ confirmed = FALSE
    /\ ever_confirmed = FALSE
    /\ latch = [k \in Kinds |-> FALSE]
    /\ engine_cancelled = [k \in Kinds |-> FALSE]
    /\ callers = [c \in Callers |-> IdleCaller]
    /\ ncalls = 0
    /\ workers = [i \in CallIds |-> NoWorker]
    /\ cl_files = <<>>
    /\ cl_fates = <<>>
    /\ cl_pc = "init"
    /\ cl_idx = 0
    /\ cl_result = NewCleanResult
    /\ cl_events = <<>>
    /\ cl_log = <<>>
    /\ sec_cwd = <<>>
    /\ sec_protected = HARDCODED_PROTECTED
    /\ sec_path = [rooted |-> TRUE, parts |-> <<Mx("temp")>>]
    /\ sec_whitelist = {}
    /\ sec_pc = "init"
    /\ sec_result = [safe |-> FALSE, reason |-> "none"]
    /\ re_rules = <<>>
    /\ match_cache = <<>>
    /\ re_inserts = 0
    /\ re_last = NoMatchCall
    /\ sc_targets \in TargetLists
    /\ sc_pc = "start"
    /\ sc_t = 0
    /\ sc_i = 0
    /\ sc_files = <<>>
    /\ sc_pending = NoResult
    /\ sc_resume = "none"
    /\ sc_yielded = <<>>
    /\ sc_results = <<>>
    /\ sc_events = <<>>
    /\ sc_cancel_pc = "none"
    /\ sc_raced = FALSE
    /\ sc_cut = FALSE
    /\ tr_tree = <<>>
    /\ tr_variant = "baseline"
    /\ tr_pc = "init"
    /\ tr_result = NoResult
    /\ cf_rules = <<>>
    /\ cf_tiers = <<>>
    /\ cf_results = <<>>
    /\ cf_k = 0
    /\ cf_matched = [b \in Buckets |-> <<>>]
    /\ eb_subscribers = [t \in EventTypes |-> <<>>]
    /\ eb_pc = "idle"
    /\ eb_i = 0
    /\ eb_last = NoPublish
    /\ pv_files = <<>>
    /\ pv_history = <<>>
    /\ pv_deleted = {}
    /\ pv_start = [state |-> "idle", cancel_flag |-> FALSE]
    /\ ld_config = [kind |-> "missing", rules |-> <<>>]
    /\ ld_pc = "init"
    /\ ld_rules = <<>>
    /\ ld_raised = FALSE
    /\ mg_clusters = <<>>
    /\ mg_pc = "init"
    /\ mg_merged = <<>>
    /\ ch_cache = {}
    /\ ch_unsaved = {}
    /\ cs_preview_files = {}
    /\ cs_log = <<>>
    /\ ed_index = "optimized"
    /\ ed_edits = 0
    /\ ed_last = NoEditCall
    /\ si_class = "StateManager"
    /\ si_instance = [id |-> 0, fields |-> 0]
    /\ si_made = 0
    /\ si_lock = "none"
    /\ si_pc = [t \in Callers |-> "check1"]
    /\ si_got = [t \in Callers |-> [id |-> 0, fields |-> 0]]

SpecScan == InitScan /\ [][Scan_Next]_vars

\* A call of scan_single_target on an existing directory, for every tree and
\* with either scanner class.
InitTree ==
    /\ state = "idle"
    /\ cancel_flag = FALSE
    /\ result_queue = <<>>
    /\ sm_last = NoCall
    /\ confirmed = FALSE
    /\ ever_confirmed = FALSE
    /\ latch = [k \in Kinds |-> FALSE]
    /\ engine_cancelled = [k \in Kinds |-> FALSE]
    /\ callers = [c \in Callers |-> IdleCaller]
    /\ ncalls = 0
    /\ workers = [i \in CallIds |-> NoWorker]
    /\ cl_files = <<>>
    /\ cl_fates = <<>>
    /\ cl_pc = "init"
    /\ cl_idx = 0
    /\ cl_result = NewCleanResult
    /\ cl_events = <<>>
    /\ cl_log = <<>>
    /\ sec_cwd = <<>>
    /\ sec_protected = HARDCODED_PROTECTED
    /\ sec_path = [rooted |-> TRUE, parts |-> <<Mx("temp")>>]
    /\ sec_whitelist = {}
    /\ sec_pc = "init"
    /\ sec_result = [safe |-> FALSE, reason |-> "none"]
    /\ re_rules = <<>>
    /\ match_cache = <<>>
    /\ re_inserts = 0
    /\ re_last = NoMatchCall
    /\ sc_targets = <<>>
    /\ sc_pc = "start"
    /\ sc_t = 0
    /\ sc_i = 0
    /\ sc_files = <<>>
    /\ sc_pending = NoResult
    /\ sc_resume = "none"
    /\ sc_yielded = <<>>
    /\ sc_results = <<>>
    /\ sc_events = <<>>
    /\ sc_cancel_pc = "none"
    /\ sc_raced = FALSE
    /\ sc_cut = FALSE
    /\ tr_tree \in Trees
    /\ tr_variant \in {"baseline", "optimized"}
    /\ tr_pc = "init"
    /\ tr_result = NoResult
    /\ cf_rules = <<>>
    /\ cf_tiers = <<>>
    /\ cf_results = <<>>
    /\ cf_k = 0
    /\ cf_matched = [b \in Buckets |-> <<>>]
    /\ eb_subscribers = [t \in EventTypes |-> <<>>]
    /\ eb_pc = "idle"
    /\ eb_i = 0
    /\ eb_last = NoPublish
    /\ pv_files = <<>>
    /\ pv_history = <<>>
    /\ pv_deleted = {}
    /\ pv_start = [state |-> "idle", cancel_flag |-> FALSE]
    /\ ld_config = [kind |-> "missing", rules |-> <<>>]
    /\ ld_pc = "init"
    /\ ld_rules = <<>>
    /\ ld_raised = FALSE
    /\ mg_clusters = <<>>
    /\ mg_pc = "init"
    /\ mg_merged = <<>>
    /\ ch_cache = {}
    /\ ch_unsaved = {}
    /\ cs_preview_files = {}
    /\ cs_log = <<>>
    /\ ed_index = "optimized"
    /\ ed_edits = 0
    /\ ed_last = NoEditCall
    /\ si_class = "StateManager"
    /\ si_instance = [id |-> 0, fields |-> 0]
    /\ si_made = 0
    /\ si_lock = "none"
    /\ si_pc = [t \in Callers |-> "check1"]
    /\ si_got = [t \in Callers |-> [id |-> 0, fields |-> 0]]

SpecTree == InitTree /\ [][Tree_Next]_vars

\* A scan whose worker has just been started (start_scan has cleared
\* _results and _matched_files), for every rule list and every assignment of
\* risk levels to its rules.
InitClassify ==
    /\ state = "idle"
    /\ cancel_flag = FALSE
    /\ result_queue = <<>>
    /\ sm_last = NoCall
    /\ confirmed = FALSE
    /\ ever_confirmed = FALSE
    /\ latch = [k \in Kinds |-> FALSE]
    /\ engine_cancelled = [k \in Kinds |-> FALSE]
    /\ callers = [c \in Callers |-> IdleCaller]
    /\ ncalls = 0
    /\ workers = [i \in CallIds |-> NoWorker]
    /\ cl_files = <<>>
    /\ cl_fates = <<>>
    /\ cl_pc = "init"
    /\ cl_idx = 0
    /\ cl_result = NewCleanResult
    /\ cl_events = <<>>
    /\ cl_log = <<>>
    /\ sec_cwd = <<>>
    /\ sec_protected = HARDCODED_PROTECTED
    /\ sec_path = [rooted |-> TRUE, parts |-> <<Mx("temp")>>]
    /\ sec_whitelist = {}
    /\ sec_pc = "init"
    /\ sec_result = [safe |-> FALSE, reason |-> "none"]
    /\ re_rules = <<>>
    /\ match_cache = <<>>
    /\ re_inserts = 0
    /\ re_last = NoMatchCall
    /\ sc_targets = <<>>
    /\ sc_pc = "start"
    /\ sc_t = 0
    /\ sc_i = 0
    /\ sc_files = <<>>
    /\ sc_pending = NoResult
    /\ sc_resume = "none"
    /\ sc_yielded = <<>>
    /\ sc_results = <<>>
    /\ sc_events = <<>>
    /\ sc_cancel_pc = "none"
    /\ sc_raced = FALSE
    /\ sc_cut = FALSE
    /\ tr_tree = <<>>
    /\ tr_variant = "baseline"
    /\ tr_pc = "init"
    /\ tr_result = NoResult
    /\ cf_rules \in RuleLists
    /\ cf_tiers \in [1..Len(cf_rules) -> RiskLevels]
    /\ cf_results = ClassifyResults
    /\ cf_k = 0
    /\ cf_matched = [b \in Buckets |-> <<>>]
    /\ eb_subscribers = [t \in EventTypes |-> <<>>]
    /\ eb_pc = "idle"
    /\ eb_i = 0
    /\ eb_last = NoPublish
    /\ pv_files = <<>>
    /\ pv_history = <<>>
    /\ pv_deleted = {}
    /\ pv_start = [state |-> "idle", cancel_flag |-> FALSE]
    /\ ld_config = [kind |-> "missing", rules |-> <<>>]
    /\ ld_pc = "init"
    /\ ld_rules = <<>>
    /\ ld_raised = FALSE
    /\ mg_clusters = <<>>
    /\ mg_pc = "init"
    /\ mg_merged = <<>>
    /\ ch_cache = {}
    /\ ch_unsaved = {}
    /\ cs_preview_files = {}
    /\ cs_log = <<>>
    /\ ed_index = "optimized"
    /\ ed_edits = 0
    /\ ed_last = NoEditCall
    /\ si_class = "StateManager"
    /\ si_instance = [id |-> 0, fields |-> 0]
    /\ si_made = 0
    /\ si_lock = "none"
    /\ si_pc = [t \in Callers |-> "check1"]
    /\ si_got = [t \in Callers |-> [id |-> 0, fields |-> 0]]

SpecClassify == InitClassify /\ [][Classify_Next]_vars

\* The EventBus after construction: no subscriber.
InitBus ==
    /\ state = "idle"
    /\ cancel_flag = FALSE
    /\ result_queue = <<>>
    /\ sm_last = NoCall
    /\ confirmed = FALSE
    /\ ever_confirmed = FALSE
    /\ latch = [k \in Kinds |-> FALSE]
    /\ engine_cancelled = [k \in Kinds |-> FALSE]
    /\ callers = [c \in Callers |-> IdleCaller]
    /\ ncalls = 0
    /\ workers = [i \in CallIds |-> NoWorker]
    /\ cl_files = <<>>
    /\ cl_fates = <<>>
    /\ cl_pc = "init"
    /\ cl_idx = 0
    /\ cl_result = NewCleanResult
    /\ cl_events = <<>>
    /\ cl_log = <<>>
    /\ sec_cwd = <<>>
    /\ sec_protected = HARDCODED_PROTECTED
    /\ sec_path = [rooted |-> TRUE, parts |-> <<Mx("temp")>>]
    /\ sec_whitelist = {}
    /\ sec_pc = "init"
    /\ sec_result = [safe |-> FALSE, reason |-> "none"]
    /\ re_rules = <<>>
    /\ match_cache = <<>>
    /\ re_inserts = 0
    /\ re_last = NoMatchCall
    /\ sc_targets = <<>>
    /\ sc_pc = "start"
    /\ sc_t = 0
    /\ sc_i = 0
    /\ sc_files = <<>>
    /\ sc_pending = NoResult
    /\ sc_resume = "none"
    /\ sc_yielded = <<>>
    /\ sc_results = <<>>
    /\ sc_events = <<>>
    /\ sc_cancel_pc = "none"
    /\ sc_raced = FALSE
    /\ sc_cut = FALSE
    /\ tr_tree = <<>>
    /\ tr_variant = "baseline"
    /\ tr_pc = "init"
    /\ tr_result = NoResult
    /\ cf_rules = <<>>
    /\ cf_tiers = <<>>
    /\ cf_results = <<>>
    /\ cf_k = 0
    /\ cf_matched = [b \in Buckets |-> <<>>]
    /\ eb_subscribers = [t \in EventTypes |-> <<>>]
    /\ eb_pc = "idle"
    /\ eb_i = 0
    /\ eb_last = NoPublish
    /\ pv_files = <<>>
    /\ pv_history = <<>>
    /\ pv_deleted = {}
    /\ pv_start = [state |-> "idle", cancel_flag |-> FALSE]
    /\ ld_config = [kind |-> "missing", rules |-> <<>>]
    /\ ld_pc = "init"
    /\ ld_rules = <<>>
    /\ ld_raised = FALSE
    /\ mg_clusters = <<>>
    /\ mg_pc = "init"
    /\ mg_merged = <<>>
    /\ ch_cache = {}
    /\ ch_unsaved = {}
    /\ cs_preview_files = {}
    /\ cs_log = <<>>
    /\ ed_index = "optimized"
    /\ ed_edits = 0
    /\ ed_last = NoEditCall
    /\ si_class = "StateManager"
    /\ si_instance = [id |-> 0, fields |-> 0]
    /\ si_made = 0
    /\ si_lock = "none"
    /\ si_pc = [t \in Callers |-> "check1"]
    /\ si_got = [t \in Callers |-> [id |-> 0, fields |-> 0]]

SpecBus == InitBus /\ [][Bus_Next]_vars

\* A CleanController in any system state, confirmed or not, before the first
\* preview_clean call.
InitPreview ==
    /\ state \in SystemState
    /\ cancel_flag \in BOOLEAN
    /\ result_queue = <<>>
    /\ sm_last = NoCall
    /\ confirmed \in BOOLEAN
    /\ ever_confirmed = FALSE
    /\ latch = [k \in Kinds |-> FALSE]
    /\ engine_cancelled = [k \in Kinds |-> FALSE]
    /\ callers = [c \in Callers |-> IdleCaller]
    /\ ncalls = 0
    /\ workers = [i \in CallIds |-> NoWorker]
    /\ cl_files = <<>>
    /\ cl_fates = <<>>
    /\ cl_pc = "init"
    /\ cl_idx = 0
    /\ cl_result = NewCleanResult
    /\ cl_events = <<>>
    /\ cl_log = <<>>
    /\ sec_cwd = <<>>
    /\ sec_protected = HARDCODED_PROTECTED
    /\ sec_path = [rooted |-> TRUE, parts |-> <<Mx("temp")>>]
    /\ sec_whitelist = {}
    /\ sec_pc = "init"
    /\ sec_result = [safe |-> FALSE, reason |-> "none"]
    /\ re_rules = <<>>
    /\ match_cache = <<>>
    /\ re_inserts = 0
    /\ re_last = NoMatchCall
    /\ sc_targets = <<>>
    /\ sc_pc = "start"
    /\ sc_t = 0
    /\ sc_i = 0
    /\ sc_files = <<>>
    /\ sc_pending = NoResult
    /\ sc_resume = "none"
    /\ sc_yielded = <<>>
    /\ sc_results = <<>>
    /\ sc_events = <<>>
    /\ sc_cancel_pc = "none"
    /\ sc_raced = FALSE
    /\ sc_cut = FALSE
    /\ tr_tree = <<>>
    /\ tr_variant = "baseline"
    /\ tr_pc = "init"
    /\ tr_result = NoResult
    /\ cf_rules = <<>>
    /\ cf_tiers = <<>>
    /\ cf_results = <<>>
    /\ cf_k = 0
    /\ cf_matched = [b \in Buckets |-> <<>>]
    /\ eb_subscribers = [t \in EventTypes |-> <<>>]
    /\ eb_pc = "idle"
    /\ eb_i = 0
    /\ eb_last = NoPublish
    /\ pv_files \in PreviewLists
    /\ pv_history = <<>>
    /\ pv_deleted = {}
    /\ pv_start = [state |-> state, cancel_flag |-> cancel_flag]
    /\ ld_config = [kind |-> "missing", rules |-> <<>>]
    /\ ld_pc = "init"
    /\ ld_rules = <<>>
    /\ ld_raised = FALSE
    /\ mg_clusters = <<>>
    /\ mg_pc = "init"
    /\ mg_merged = <<>>
    /\ ch_cache = {}
    /\ ch_unsaved = {}
    /\ cs_preview_files = {}
    /\ cs_log = <<>>
    /\ ed_index = "optimized"
    /\ ed_edits = 0
    /\ ed_last = NoEditCall
    /\ si_class = "StateManager"
    /\ si_instance = [id |-> 0, fields |-> 0]
    /\ si_made = 0
    /\ si_lock = "none"
    /\ si_pc = [t \in Callers |-> "check1"]
    /\ si_got = [t \in Callers |-> [id |-> 0, fields |-> 0]]

SpecPreview == InitPreview /\ [][Preview_Next]_vars

\* A freshly constructed RuleEngine (rules empty), for every configuration.
InitLoad ==
    /\ state = "idle"
    /\ cancel_flag = FALSE
    /\ result_queue = <<>>
    /\ sm_last = NoCall
    /\ confirmed = FALSE
    /\ ever_confirmed = FALSE
    /\ latch = [k \in Kinds |-> FALSE]
    /\ engine_cancelled = [k \in Kinds |-> FALSE]
    /\ callers = [c \in Callers |-> IdleCaller]
    /\ ncalls = 0
    /\ workers = [i \in CallIds |-> NoWorker]
    /\ cl_files = <<>>
    /\ cl_fates = <<>>
    /\ cl_pc = "init"
    /\ cl_idx = 0
    /\ cl_result = NewCleanResult
    /\ cl_events = <<>>
    /\ cl_log = <<>>
    /\ sec_cwd = <<>>
    /\ sec_protected = HARDCODED_PROTECTED
    /\ sec_path = [rooted |-> TRUE, parts |-> <<Mx("temp")>>]
    /\ sec_whitelist = {}
    /\ sec_pc = "init"
    /\ sec_result = [safe |-> FALSE, reason |-> "none"]
    /\ re_rules = <<>>
    /\ match_cache = <<>>
    /\ re_inserts = 0
    /\ re_last = NoMatchCall
    /\ sc_targets = <<>>
    /\ sc_pc = "start"
    /\ sc_t = 0
    /\ sc_i = 0
    /\ sc_files = <<>>
    /\ sc_pending = NoResult
    /\ sc_resume = "none"
    /\ sc_yielded = <<>>
    /\ sc_results = <<>>
    /\ sc_events = <<>>
    /\ sc_cancel_pc = "none"
    /\ sc_raced = FALSE
    /\ sc_cut = FALSE
    /\ tr_tree = <<>>
    /\ tr_variant = "baseline"
    /\ tr_pc = "init"
    /\ tr_result = NoResult
    /\ cf_rules = <<>>
    /\ cf_tiers = <<>>
    /\ cf_results = <<>>
    /\ cf_k = 0
    /\ cf_matched = [b \in Buckets |-> <<>>]
    /\ eb_subscribers = [t \in EventTypes |-> <<>>]
    /\ eb_pc = "idle"
    /\ eb_i = 0
    /\ eb_last = NoPublish
    /\ pv_files = <<>>
    /\ pv_history = <<>>
    /\ pv_deleted = {}
    /\ pv_start = [state |-> "idle", cancel_flag |-> FALSE]
    /\ ld_config \in Configs
    /\ ld_pc = "init"
    /\ ld_rules = <<>>
    /\ ld_raised = FALSE
    /\ mg_clusters = <<>>
    /\ mg_pc = "init"
    /\ mg_merged = <<>>
    /\ ch_cache = {}
    /\ ch_unsaved = {}
    /\ cs_preview_files = {}
    /\ cs_log = <<>>
    /\ ed_index = "optimized"
    /\ ed_edits = 0
    /\ ed_last = NoEditCall
    /\ si_class = "StateManager"
    /\ si_instance = [id |-> 0, fields |-> 0]
    /\ si_made = 0
    /\ si_lock = "none"
    /\ si_pc = [t \in Callers |-> "check1"]
    /\ si_got = [t \in Callers |-> [id |-> 0, fields |-> 0]]

SpecLoad == InitLoad /\ [][Load_Next]_vars

\* A call of _merge_clusters, for every list of clusters.
InitMerge ==
    /\ state = "idle"
    /\ cancel_flag = FALSE
    /\ result_queue = <<>>
    /\ sm_last = NoCall
    /\ confirmed = FALSE
    /\ ever_confirmed = FALSE
    /\ latch = [k \in Kinds |-> FALSE]
    /\ engine_cancelled = [k \in Kinds |-> FALSE]
    /\ callers = [c \in Callers |-> IdleCaller]
    /\ ncalls = 0
    /\ workers = [i \in CallIds |-> NoWorker]
    /\ cl_files = <<>>
    /\ cl_fates = <<>>
    /\ cl_pc = "init"
    /\ cl_idx = 0
    /\ cl_result = NewCleanResult
    /\ cl_events = <<>>
    /\ cl_log = <<>>
    /\ sec_cwd = <<>>
    /\ sec_protected = HARDCODED_PROTECTED
    /\ sec_path = [rooted |-> TRUE, parts |-> <<Mx("temp")>>]
    /\ sec_whitelist = {}
    /\ sec_pc = "init"
    /\ sec_result = [safe |-> FALSE, reason |-> "none"]
    /\ re_rules = <<>>
    /\ match_cache = <<>>
    /\ re_inserts = 0
    /\ re_last = NoMatchCall
    /\ sc_targets = <<>>
    /\ sc_pc = "start"
    /\ sc_t = 0
    /\ sc_i = 0
    /\ sc_files = <<>>
    /\ sc_pending = NoResult
    /\ sc_resume = "none"
    /\ sc_yielded = <<>>
    /\ sc_results = <<>>
    /\ sc_events = <<>>
    /\ sc_cancel_pc = "none"
    /\ sc_raced = FALSE
    /\ sc_cut = FALSE
    /\ tr_tree = <<>>
    /\ tr_variant = "baseline"
    /\ tr_pc = "init"
    /\ tr_result = NoResult
    /\ cf_rules = <<>>
    /\ cf_tiers = <<>>
    /\ cf_results = <<>>
    /\ cf_k = 0
    /\ cf_matched = [b \in Buckets |-> <<>>]
    /\ eb_subscribers = [t \in EventTypes |-> <<>>]
    /\ eb_pc = "idle"
    /\ eb_i = 0
    /\ eb_last = NoPublish
    /\ pv_files = <<>>
    /\ pv_history = <<>>
    /\ pv_deleted = {}
    /\ pv_start = [state |-> "idle", cancel_flag |-> FALSE]
    /\ ld_config = [kind |-> "missing", rules |-> <<>>]
    /\ ld_pc = "init"
    /\ ld_rules = <<>>
    /\ ld_raised = FALSE
    /\ mg_clusters \in ClusterLists
    /\ mg_pc = "init"
    /\ mg_merged = <<>>
    /\ ch_cache = {}
    /\ ch_unsaved = {}
    /\ cs_preview_files = {}
    /\ cs_log = <<>>
    /\ ed_index = "optimized"
    /\ ed_edits = 0
    /\ ed_last = NoEditCall
    /\ si_class = "StateManager"
    /\ si_instance = [id |-> 0, fields |-> 0]
    /\ si_made = 0
    /\ si_lock = "none"
    /\ si_pc = [t \in Callers |-> "check1"]
    /\ si_got = [t \in Callers |-> [id |-> 0, fields |-> 0]]

SpecMerge == InitMerge /\ [][Merge_Next]_vars

\* A ScanCache after construction: the entries of the cache file, if any,
\* are loaded.
InitCache ==
    /\ state = "idle"
    /\ cancel_flag = FALSE
    /\ result_queue = <<>>
    /\ sm_last = NoCall
    /\ confirmed = FALSE
    /\ ever_confirmed = FALSE
    /\ latch = [k \in Kinds |-> FALSE]
    /\ engine_cancelled = [k \in Kinds |-> FALSE]
    /\ callers = [c \in Callers |-> IdleCaller]
    /\ ncalls = 0
    /\ workers = [i \in CallIds |-> NoWorker]
    /\ cl_files = <<>>
    /\ cl_fates = <<>>
    /\ cl_pc = "init"
    /\ cl_idx = 0
    /\ cl_result = NewCleanResult
    /\ cl_events = <<>>
    /\ cl_log = <<>>
    /\ sec_cwd = <<>>
    /\ sec_protected = HARDCODED_PROTECTED
    /\ sec_path = [rooted |-> TRUE, parts |-> <<Mx("temp")>>]
    /\ sec_whitelist = {}
    /\ sec_pc = "init"
    /\ sec_result = [safe |-> FALSE, reason |-> "none"]
    /\ re_rules = <<>>
    /\ match_cache = <<>>
    /\ re_inserts = 0
    /\ re_last = NoMatchCall
    /\ sc_targets = <<>>
    /\ sc_pc = "start"
    /\ sc_t = 0
    /\ sc_i = 0
    /\ sc_files = <<>>
    /\ sc_pending = NoResult
    /\ sc_resume = "none"
    /\ sc_yielded = <<>>
    /\ sc_results = <<>>
    /\ sc_events = <<>>
    /\ sc_cancel_pc = "none"
    /\ sc_raced = FALSE
    /\ sc_cut = FALSE
    /\ tr_tree = <<>>
    /\ tr_variant = "baseline"
    /\ tr_pc = "init"
    /\ tr_result = NoResult
    /\ cf_rules = <<>>
    /\ cf_tiers = <<>>
    /\ cf_results = <<>>
    /\ cf_k = 0
    /\ cf_matched = [b \in Buckets |-> <<>>]
    /\ eb_subscribers = [t \in EventTypes |-> <<>>]
    /\ eb_pc = "idle"
    /\ eb_i = 0
    /\ eb_last = NoPublish
    /\ pv_files = <<>>
    /\ pv_history = <<>>
    /\ pv_deleted = {}
    /\ pv_start = [state |-> "idle", cancel_flag |-> FALSE]
    /\ ld_config = [kind |-> "missing", rules |-> <<>>]
    /\ ld_pc = "init"
    /\ ld_rules = <<>>
    /\ ld_raised = FALSE
    /\ mg_clusters = <<>>
    /\ mg_pc = "init"
    /\ mg_merged = <<>>
    /\ ch_cache \in SUBSET CachePaths
    /\ ch_unsaved = {}
    /\ cs_preview_files = {}
    /\ cs_log = <<>>
    /\ ed_index = "optimized"
    /\ ed_edits = 0
    /\ ed_last = NoEditCall
    /\ si_class = "StateManager"
    /\ si_instance = [id |-> 0, fields |-> 0]
    /\ si_made = 0
    /\ si_lock = "none"
    /\ si_pc = [t \in Callers |-> "check1"]
    /\ si_got = [t \in Callers |-> [id |-> 0, fields |-> 0]]

SpecCache == InitCache /\ [][Cache_Next]_vars

\* One scan started on a scan controller that has either just been built or
\* has had an earlier scan cancelled and finished: cancel_scan of the earlier
\* scan left scanner._cancelled set (nothing in the application calls
\* reset_cancel), the state went back to Idle, and start_scan of this scan
\* moved it to Scanning, which reset the cancel flag of the state manager.
InitScanAgain ==
    /\ state = "scanning"
    /\ cancel_flag = FALSE
    /\ result_queue = <<>>
    /\ sm_last = NoCall
    /\ confirmed = FALSE
    /\ ever_confirmed = FALSE
    /\ latch = [k \in Kinds |-> FALSE]
    /\ engine_cancelled \in {[k \in Kinds |-> k = "scan" /\ b] : b \in BOOLEAN}
    /\ callers = [c \in Callers |-> IdleCaller]
    /\ ncalls = 0
    /\ workers = [i \in CallIds |-> NoWorker]
    /\ cl_files = <<>>
    /\ cl_fates = <<>>
    /\ cl_pc = "init"
    /\ cl_idx = 0
    /\ cl_result = NewCleanResult
    /\ cl_events = <<>>
    /\ cl_log = <<>>
    /\ sec_cwd = <<>>
    /\ sec_protected = HARDCODED_PROTECTED
    /\ sec_path = [rooted |-> TRUE, parts |-> <<Mx("temp")>>]
    /\ sec_whitelist = {}
    /\ sec_pc = "init"
    /\ sec_result = [safe |-> FALSE, reason |-> "none"]
    /\ re_rules = <<>>
    /\ match_cache = <<>>
    /\ re_inserts = 0
    /\ re_last = NoMatchCall
    /\ sc_targets \in TargetLists
    /\ sc_pc = "start"
    /\ sc_t = 0
    /\ sc_i = 0
    /\ sc_files = <<>>
    /\ sc_pending = NoResult
    /\ sc_resume = "none"
    /\ sc_yielded = <<>>
    /\ sc_results = <<>>
    /\ sc_events = <<>>
    /\ sc_cancel_pc = "none"
    /\ sc_raced = FALSE
    /\ sc_cut = FALSE
    /\ tr_tree = <<>>
    /\ tr_variant = "baseline"
    /\ tr_pc = "init"
    /\ tr_result = NoResult
    /\ cf_rules = <<>>
    /\ cf_tiers = <<>>
    /\ cf_results = <<>>
    /\ cf_k = 0
    /\ cf_matched = [b \in Buckets |-> <<>>]
    /\ eb_subscribers = [t \in EventTypes |-> <<>>]
    /\ eb_pc = "idle"
    /\ eb_i = 0
    /\ eb_last = NoPublish
    /\ pv_files = <<>>
    /\ pv_history = <<>>
    /\ pv_deleted = {}
    /\ pv_start = [state |-> "idle", cancel_flag |-> FALSE]
    /\ ld_config = [kind |-> "missing", rules |-> <<>>]
    /\ ld_pc = "init"
    /\ ld_rules = <<>>
    /\ ld_raised = FALSE
    /\ mg_clusters = <<>>
    /\ mg_pc = "init"
    /\ mg_merged = <<>>
    /\ ch_cache = {}
    /\ ch_unsaved = {}
    /\ cs_preview_files = {}
    /\ cs_log = <<>>
    /\ ed_index = "optimized"
    /\ ed_edits = 0
    /\ ed_last = NoEditCall
    /\ si_class = "StateManager"
    /\ si_instance = [id |-> 0, fields |-> 0]
    /\ si_made = 0
    /\ si_lock = "none"
    /\ si_pc = [t \in Callers |-> "check1"]
    /\ si_got = [t \in Callers |-> [id |-> 0, fields |-> 0]]

SpecScanAgain == InitScanAgain /\ [][Scan_Next]_vars

\* One client of a CleanController that has just been built.
InitSession ==
    /\ state = "idle"
    /\ cancel_flag = FALSE
    /\ result_queue = <<>>
    /\ sm_last = NoCall
    /\ confirmed = FALSE
    /\ ever_confirmed = FALSE
    /\ latch = [k \in Kinds |-> FALSE]
    /\ engine_cancelled = [k \in Kinds |-> FALSE]
    /\ callers = [c \in Callers |-> IdleCaller]
    /\ ncalls = 0
    /\ workers = [i \in CallIds |-> NoWorker]
    /\ cl_files = <<>>
    /\ cl_fates = <<>>
    /\ cl_pc = "init"
    /\ cl_idx = 0
    /\ cl_result = NewCleanResult
    /\ cl_events = <<>>
    /\ cl_log = <<>>
    /\ sec_cwd = <<>>
    /\ sec_protected = HARDCODED_PROTECTED
    /\ sec_path = [rooted |-> TRUE, parts |-> <<Mx("temp")>>]
    /\ sec_whitelist = {}
    /\ sec_pc = "init"
    /\ sec_result = [safe |-> FALSE, reason |-> "none"]
    /\ re_rules = <<>>
    /\ match_cache = <<>>
    /\ re_inserts = 0
    /\ re_last = NoMatchCall
    /\ sc_targets = <<>>
    /\ sc_pc = "start"
    /\ sc_t = 0
    /\ sc_i = 0
    /\ sc_files = <<>>
    /\ sc_pending = NoResult
    /\ sc_resume = "none"
    /\ sc_yielded = <<>>
    /\ sc_results = <<>>
    /\ sc_events = <<>>
    /\ sc_cancel_pc = "none"
    /\ sc_raced = FALSE
    /\ sc_cut = FALSE
    /\ tr_tree = <<>>
    /\ tr_variant = "baseline"
    /\ tr_pc = "init"
    /\ tr_result = NoResult
    /\ cf_rules = <<>>
    /\ cf_tiers = <<>>
    /\ cf_results = <<>>
    /\ cf_k = 0
    /\ cf_matched = [b \in Buckets |-> <<>>]
    /\ eb_subscribers = [t \in EventTypes |-> <<>>]
    /\ eb_pc = "idle"
    /\ eb_i = 0
    /\ eb_last = NoPublish
    /\ pv_files = <<>>
    /\ pv_history = <<>>
    /\ pv_deleted = {}
    /\ pv_start = [state |-> "idle", cancel_flag |-> FALSE]
    /\ ld_config = [kind |-> "missing", rules |-> <<>>]
    /\ ld_pc = "init"
    /\ ld_rules = <<>>
    /\ ld_raised = FALSE
    /\ mg_clusters = <<>>
    /\ mg_pc = "init"
    /\ mg_merged = <<>>
    /\ ch_cache = {}
    /\ ch_unsaved = {}
    /\ cs_preview_files = {}
    /\ cs_log = <<>>
    /\ ed_index = "optimized"
    /\ ed_edits = 0
    /\ ed_last = NoEditCall
    /\ si_class = "StateManager"
    /\ si_instance = [id |-> 0, fields |-> 0]
    /\ si_made = 0
    /\ si_lock = "none"
    /\ si_pc = [t \in Callers |-> "check1"]
    /\ si_got = [t \in Callers |-> [id |-> 0, fields |-> 0]]

SpecSession == InitSession /\ [][Session_Next]_vars

\* An OptimizedRuleEngine loaded with a rule list, for every rule list.
InitEdit ==
    /\ state = "idle"
    /\ cancel_flag = FALSE
    /\ result_queue = <<>>
    /\ sm_last = NoCall
    /\ confirmed = FALSE
    /\ ever_confirmed = FALSE
    /\ latch = [k \in Kinds |-> FALSE]
    /\ engine_cancelled = [k \in Kinds |-> FALSE]
    /\ callers = [c \in Callers |-> IdleCaller]
    /\ ncalls = 0
    /\ workers = [i \in CallIds |-> NoWorker]
    /\ cl_files = <<>>
    /\ cl_fates = <<>>
    /\ cl_pc = "init"
    /\ cl_idx = 0
    /\ cl_result = NewCleanResult
    /\ cl_events = <<>>
    /\ cl_log = <<>>
    /\ sec_cwd = <<>>
    /\ sec_protected = HARDCODED_PROTECTED
    /\ sec_path = [rooted |-> TRUE, parts |-> <<Mx("temp")>>]
    /\ sec_whitelist = {}
    /\ sec_pc = "init"
    /\ sec_result = [safe |-> FALSE, reason |-> "none"]
    /\ re_rules \in RuleLists
    /\ match_cache = <<>>
    /\ re_inserts = 0
    /\ re_last = NoMatchCall
    /\ sc_targets = <<>>
    /\ sc_pc = "start"
    /\ sc_t = 0
    /\ sc_i = 0
    /\ sc_files = <<>>
    /\ sc_pending = NoResult
    /\ sc_resume = "none"
    /\ sc_yielded = <<>>
    /\ sc_results = <<>>
    /\ sc_events = <<>>
    /\ sc_cancel_pc = "none"
    /\ sc_raced = FALSE
    /\ sc_cut = FALSE
    /\ tr_tree = <<>>
    /\ tr_variant = "baseline"
    /\ tr_pc = "init"
    /\ tr_result = NoResult
    /\ cf_rules = <<>>
    /\ cf_tiers = <<>>
    /\ cf_results = <<>>
    /\ cf_k = 0
    /\ cf_matched = [b \in Buckets |-> <<>>]
    /\ eb_subscribers = [t \in EventTypes |-> <<>>]
    /\ eb_pc = "idle"
    /\ eb_i = 0
    /\ eb_last = NoPublish
    /\ pv_files = <<>>
    /\ pv_history = <<>>
    /\ pv_deleted = {}
    /\ pv_start = [state |-> "idle", cancel_flag |-> FALSE]
    /\ ld_config = [kind |-> "missing", rules |-> <<>>]
    /\ ld_pc = "init"
    /\ ld_rules = <<>>
    /\ ld_raised = FALSE
    /\ mg_clusters = <<>>
    /\ mg_pc = "init"
    /\ mg_merged = <<>>
    /\ ch_cache = {}
    /\ ch_unsaved = {}
    /\ cs_preview_files = {}
    /\ cs_log = <<>>
    /\ ed_index = "optimized"
    /\ ed_edits = 0
    /\ ed_last = NoEditCall
    /\ si_class = "StateManager"
    /\ si_instance = [id |-> 0, fields |-> 0]
    /\ si_made = 0
    /\ si_lock = "none"
    /\ si_pc = [t \in Callers |-> "check1"]
    /\ si_got = [t \in Callers |-> [id |-> 0, fields |-> 0]]

SpecEdit == InitEdit /\ [][Edit_Next]_vars

\* No instance of the class exists and every thread is about to call the
\* constructor, for both singleton classes.
InitNew ==
    /\ state = "idle"
    /\ cancel_flag = FALSE
    /\ result_queue = <<>>
    /\ sm_last = NoCall
    /\ confirmed = FALSE
    /\ ever_confirmed = FALSE
    /\ latch = [k \in Kinds |-> FALSE]
    /\ engine_cancelled = [k \in Kinds |-> FALSE]
    /\ callers = [c \in Callers |-> IdleCaller]
    /\ ncalls = 0
    /\ workers = [i \in CallIds |-> NoWorker]
    /\ cl_files = <<>>
    /\ cl_fates = <<>>
    /\ cl_pc = "init"
    /\ cl_idx = 0
    /\ cl_result = NewCleanResult
    /\ cl_events = <<>>
    /\ cl_log = <<>>
    /\ sec_cwd = <<>>
    /\ sec_protected = HARDCODED_PROTECTED
    /\ sec_path = [rooted |-> TRUE, parts |-> <<Mx("temp")>>]
    /\ sec_whitelist = {}
    /\ sec_pc = "init"
    /\ sec_result = [safe |-> FALSE, reason |-> "none"]
    /\ re_rules = <<>>
    /\ match_cache = <<>>
    /\ re_inserts = 0
    /\ re_last = NoMatchCall
    /\ sc_targets = <<>>
    /\ sc_pc = "start"
    /\ sc_t = 0
    /\ sc_i = 0
    /\ sc_files = <<>>
    /\ sc_pending = NoResult
    /\ sc_resume = "none"
    /\ sc_yielded = <<>>
    /\ sc_results = <<>>
    /\ sc_events = <<>>
    /\ sc_cancel_pc = "none"
    /\ sc_raced = FALSE
    /\ sc_cut = FALSE
    /\ tr_tree = <<>>
    /\ tr_variant = "baseline"
    /\ tr_pc = "init"
    /\ tr_result = NoResult
    /\ cf_rules = <<>>
    /\ cf_tiers = <<>>
    /\ cf_results = <<>>
    /\ cf_k = 0
    /\ cf_matched = [b \in Buckets |-> <<>>]
    /\ eb_subscribers = [t \in EventTypes |-> <<>>]
    /\ eb_pc = "idle"
    /\ eb_i = 0
    /\ eb_last = NoPublish
    /\ pv_files = <<>>
    /\ pv_history = <<>>
    /\ pv_deleted = {}
    /\ pv_start = [state |-> "idle", cancel_flag |-> FALSE]
    /\ ld_config = [kind |-> "missing", rules |-> <<>>]
    /\ ld_pc = "init"
    /\ ld_rules = <<>>
    /\ ld_raised = FALSE
    /\ mg_clusters = <<>>
    /\ mg_pc = "init"
    /\ mg_merged = <<>>
    /\ ch_cache = {}
    /\ ch_unsaved = {}
    /\ cs_preview_files = {}
    /\ cs_log = <<>>
    /\ ed_index = "optimized"
    /\ ed_edits = 0
    /\ ed_last = NoEditCall
    /\ si_class \in {"StateManager", "EventBus"}
    /\ si_instance = [id |-> 0, fields |-> 0]
    /\ si_made = 0
    /\ si_lock = "none"
    /\ si_pc = [t \in Callers |-> "check1"]
    /\ si_got = [t \in Callers |-> [id |-> 0, fields |-> 0]]

SpecNew == InitNew /\ [][New_Next]_vars

(***************************************************************************)
(* Claims about StateManager, checked under SpecSM                         *)
(***************************************************************************)

\* The allowed transitions as the specification lists them.
C5_Allowed(from, to) ==
    \/ from = "idle"      /\ to \in {"scanning", "analyzing", "cleaning"}
    \/ from = "scanning"  /\ to \in {"idle", "cleaning"}
    \/ from = "analyzing" /\ to = "idle"
    \/ from = "cleaning"  /\ to = "idle"

\* C5: transition_to(to) changes the state to `to` exactly when `to` is in the
\* allowed set of the current state; otherwise it raises StateTransitionError
\* carrying the current and the requested state and leaves the state and the
\* cancel flag unchanged.
C5_TransitionExactlyWhenAllowed ==
    sm_last.op = "transition_to" =>
        /\ C5_Allowed(sm_last.from, sm_last.arg) =>
              /\ ~sm_last.raised
              /\ state = sm_last.arg
        /\ ~C5_Allowed(sm_last.from, sm_last.arg) =>
              /\ sm_last.raised
              /\ sm_last.exc = <<sm_last.from, sm_last.arg>>
              /\ state = sm_last.from
              /\ cancel_flag = sm_last.flag0

\* C5 witness: an illegal transition (Analyzing -> Cleaning) was refused while
\* the cancel flag was set.
C5_Witness ==
    /\ sm_last.op = "transition_to"
    /\ sm_last.from = "analyzing"
    /\ sm_last.arg = "cleaning"
    /\ sm_last.raised
    /\ cancel_flag

\* C10: immediately after every successful transition_to the cancel flag is
\* False; request_cancel sets the flag to True without changing the state; and
\* a flag that was True is False after a call only if that call was a
\* successful transition_to or reset_cancel_flag.
C10_CancelFlagDiscipline ==
    /\ (sm_last.op = "transition_to" /\ ~sm_last.raised) => ~cancel_flag
    /\ sm_last.op = "request_cancel" => (cancel_flag /\ state = sm_last.from)
    /\ (sm_last.flag0 /\ ~cancel_flag) =>
          \/ sm_last.op = "reset_cancel_flag"
          \/ sm_last.op = "transition_to" /\ ~sm_last.raised

\* C10 witness: the flag was set and a successful transition has just reset it.
C10_Witness ==
    /\ sm_last.op = "transition_to"
    /\ ~sm_last.raised
    /\ sm_last.flag0
    /\ ~cancel_flag

(***************************************************************************)
(* Claims about the controllers, checked under SpecCtl                     *)
(***************************************************************************)

\* The values a sequence holds.
Range(q) == {q[i] : i \in 1..Len(q)}

\* C1: under every interleaving of start_scan, start_clean and start_analysis
\* calls from different threads, at most one worker is running its engine at
\* any moment.
C1_AtMostOneWorkerRunning ==
    Cardinality({w \in CallIds : workers[w].pc = "engine"}) <= 1

\* C2 as claimed: whatever its arguments, a start_clean call returns True, and
\* a clean worker exists, only if confirm_clean has been called.
C2_NoCleanWithoutConfirm ==
    /\ \A c \in Callers :
          (callers[c].op = "start" /\ callers[c].kind = "clean"
              /\ callers[c].ret = "true") => ever_confirmed
    /\ \A w \in CallIds : workers[w].kind = "clean" => ever_confirmed

\* C2 as amended: a start_clean call made with require_confirmation=True gets
\* past its confirmation check, returns True or has a worker only if
\* confirm_clean has been called by then; otherwise it returns False without
\* starting a worker (deletions are made by the worker alone).
C2_RequiredConfirmationEnforced ==
    /\ \A c \in Callers :
          (/\ callers[c].op = "start"
           /\ callers[c].kind = "clean"
           /\ callers[c].req
           /\ \/ callers[c].pc \in {"clear", "trans", "handler"}
              \/ callers[c].ret \in {"true", "false_exc", "raised"})
          => ever_confirmed
    /\ \A w \in CallIds :
          (workers[w].kind = "clean" /\ workers[w].req) => ever_confirmed
    /\ \A c \in Callers :
          (callers[c].op = "start" /\ callers[c].ret = "false_unconfirmed")
          => workers[callers[c].id].pc = "none"

\* C2 witness: with the StateManager idle and a non-empty list, a
\* start_clean(require_confirmation=True) call was refused for want of a
\* confirmation, and no worker was started for it.
C2_Witness ==
    \E c \in Callers :
        /\ callers[c].op = "start"
        /\ callers[c].kind = "clean"
        /\ callers[c].req
        /\ callers[c].ret = "false_unconfirmed"
        /\ ~ever_confirmed
        /\ workers[callers[c].id].pc = "none"

\* C6: a start call that returns False has made no change to the
\* StateManager's state.
C6_FalseReturnLeavesState ==
    \A c \in Callers :
        (/\ callers[c].op = "start"
         /\ callers[c].ret \in {"false_state", "false_empty",
                                "false_unconfirmed", "false_exc"})
        => ~callers[c].moved

\* C7: the worker of every start call that returned True ends having moved
\* the StateManager to Idle and having set its controller's completion event.
C7_WorkerEndsIdleAndLatched ==
    \A w \in CallIds :
        workers[w].pc \in {"done", "dead"} =>
            (workers[w].to_idle /\ workers[w].latched)

\* C8: no exception leaves a worker thread: a worker in which an exception
\* was raised does not die of it, and ends having moved the state to Idle.
C8_NoExceptionLeavesWorker ==
    \A w \in CallIds :
        workers[w].failed =>
            /\ workers[w].pc # "dead"
            /\ workers[w].pc = "done" => workers[w].to_idle

\* C9: an operation whose engine or worker raised ends with a *-failed event
\* published for it and no *-completed event.
C9_FailurePublishedAsFailed ==
    \A w \in CallIds :
        (workers[w].pc \in {"done", "dead"} /\ workers[w].failed) =>
            /\ "failed" \in Range(workers[w].evs)
            /\ "completed" \notin Range(workers[w].evs)

(***************************************************************************)
(* Claims about CleanerExecutor, checked under SpecClean                   *)
(***************************************************************************)

\* C3: for every file of the list for which is_safe_to_delete returned False
\* when the file was handled, the delete primitive was not called, skipped
\* went up by exactly one (skipped counts exactly those files), and no entry
\* of errors refers to the file.
C3_UnsafeFileSkipped ==
    /\ \A k \in 1..Len(cl_log) :
          cl_log[k].verdict = "unsafe" =>
              /\ ~cl_log[k].delete_called
              /\ \A e \in 1..Len(cl_result.errors) :
                    cl_result.errors[e].file # cl_log[k].file
    /\ cl_result.skipped =
          Cardinality({k \in 1..Len(cl_log) : cl_log[k].verdict = "unsafe"})

\* C3 witness: a finished clean in which one file was refused by the safety
\* check and another one deleted.
C3_Witness ==
    /\ cl_pc = "returned"
    /\ \E k \in 1..Len(cl_log) : cl_log[k].verdict = "unsafe"
    /\ \E k \in 1..Len(cl_log) : cl_log[k].deleted
    /\ cl_result.skipped >= 1

\* The clean events of one complete invocation: clean_started first and only
\* there, one terminal event (clean_completed or clean_failed) last and only
\* there, clean_progress events in between.
CleanTerminal == {"clean_completed", "clean_failed"}

CleanEventsComplete(ev) ==
    /\ Len(ev) >= 2
    /\ ev[1].type = "clean_started"
    /\ ev[Len(ev)].type \in CleanTerminal
    /\ \A k \in 2..(Len(ev) - 1) : ev[k].type = "clean_progress"

\* C18 as stated: every invocation of clean that has returned has published
\* clean_started exactly once, before any other clean event, and exactly one
\* terminal event (clean_completed or clean_failed), after all
\* clean_progress events.
C18_EveryInvocationPublishes ==
    cl_pc = "returned" => CleanEventsComplete(cl_events)

\* C18 amended: every invocation of clean with a non-empty file list
\* publishes clean_started exactly once, before any other clean event, and
\* exactly one terminal event, after all clean_progress events; until it
\* returns, the events so far are clean_started (once the loop is entered)
\* followed by clean_progress events only; an invocation with the empty list
\* publishes no event at all.
C18_NonEmptyInvocationPublishes ==
    /\ (cl_pc = "returned" /\ Len(cl_files) > 0) => CleanEventsComplete(cl_events)
    /\ (cl_pc = "returned" /\ Len(cl_files) = 0) => cl_events = <<>>
    /\ cl_pc = "init" => cl_events = <<>>
    /\ cl_pc \in {"loop", "finish"} =>
          /\ Len(cl_events) >= 1
          /\ cl_events[1].type = "clean_started"
          /\ \A k \in 2..Len(cl_events) : cl_events[k].type = "clean_progress"

\* C18 witness: a returned clean of a non-empty list that was cancelled
\* after a file had been handled and ended with clean_failed.
C18_Witness ==
    /\ cl_pc = "returned"
    /\ Len(cl_files) > 0
    /\ cl_idx >= 1
    /\ \E e \in 1..Len(cl_result.errors) : cl_result.errors[e].kind = "cancelled"
    /\ cl_events[Len(cl_events)].type = "clean_failed"

\* C19: when a clean of n files that was not cancelled has left its loop, a
\* clean_progress event has been published for each position that is a
\* multiple of 10 and for position n, whatever happened to the file at that
\* position (deleted, skipped or failed).
C19_ProgressAfterDuePositions ==
    (/\ cl_pc \in {"finish", "returned"}
     /\ Len(cl_files) > 0
     /\ \A e \in 1..Len(cl_result.errors) : cl_result.errors[e].kind # "cancelled")
    => \A i \in 1..Len(cl_files) :
          progress_due(i, Len(cl_files)) =>
              \E k \in 1..Len(cl_events) :
                  /\ cl_events[k].type = "clean_progress"
                  /\ cl_events[k].current = i

\* C20: a clean of five files of which the third does not exist and the
\* other four are deletable, run to its end without cancellation, returns a
\* CleanResult with files_deleted = 4 and an errors list of exactly one
\* entry, which refers to the third file.
C20_MissingFileReportedAsError ==
    (/\ cl_pc = "returned"
     /\ cl_fates = MissingThirdFates
     /\ cl_idx = Len(cl_files)
     /\ ~engine_cancelled["clean"])
    => /\ cl_result.files_deleted = 4
       /\ Len(cl_result.errors) = 1
       /\ cl_result.errors[1].file = 3

(***************************************************************************)
(* Claims about SecurityLayer, checked under SpecSec                       *)
(***************************************************************************)

\* The absolute directory a protected root names: the root's components on
\* drive C: ("C:$Recycle.Bin" names the recycle-bin store C:\$Recycle.Bin).
C4_RootDir(root) == root.parts

\* The path lies under the root, letter case ignored.
C4_Under(p, cwd, root) ==
    LET a == LowerSeq(AbsParts(p, cwd))
        r == LowerSeq(C4_RootDir(root))
    IN Len(a) > Len(r) /\ SubSeq(a, 1, Len(r)) = r

\* C4: for every existing path that lies under one of the protected roots,
\* in whatever letter case the path or the root is written and with or
\* without a trailing separator on the root, is_safe_to_delete returns False
\* with a "Protected path" reason.
C4_ProtectedPathRejected ==
    (/\ sec_pc = "done"
     /\ path_exists(sec_path, sec_cwd)
     /\ \E i \in 1..Len(sec_protected) : C4_Under(sec_path, sec_cwd, sec_protected[i]))
    => (~sec_result.safe /\ sec_result.reason = "Protected path")

(***************************************************************************)
(* Claims about the rule engines, checked under SpecRule                   *)
(***************************************************************************)

\* C11: when enabled rule A precedes enabled rule B in the rule list and the
\* file satisfies the conditions of both, RuleEngine.match_file returns a
\* match and its rule is not B: it is A, or - when the file also satisfies an
\* enabled rule before A - the first such rule; the rule returned is never a
\* disabled one.
C11_FirstMatchWins ==
    re_last.called =>
        /\ \A a, b \in 1..Len(re_rules) :
              (/\ a < b
               /\ re_rules[a].enabled /\ re_rules[b].enabled
               /\ conditions_matches(re_rules[a].conditions, re_last.file)
               /\ conditions_matches(re_rules[b].conditions, re_last.file))
              => /\ re_last.base.matched
                 /\ re_last.base.rule <= a
                 /\ (\A c \in 1..(a - 1) :
                        ~(re_rules[c].enabled
                          /\ conditions_matches(re_rules[c].conditions, re_last.file)))
                     => re_last.base.rule = a
        /\ re_last.base.matched => re_rules[re_last.base.rule].enabled

\* C11 witness: a disabled rule, then two enabled rules that the file both
\* satisfies... with two rules: rule 1 and rule 2 enabled, both satisfied,
\* and rule 1 returned.
C11_Witness ==
    /\ re_last.called
    /\ Len(re_rules) = 2
    /\ re_rules[1].enabled /\ re_rules[2].enabled
    /\ re_rules[1].conditions # re_rules[2].conditions
    /\ conditions_matches(re_rules[1].conditions, re_last.file)
    /\ conditions_matches(re_rules[2].conditions, re_last.file)
    /\ re_last.base = [matched |-> TRUE, rule |-> 1]

\* C12: for every rule list and file, OptimizedRuleEngine.match_file called
\* with an empty match cache returns the same matched flag and the same rule
\* as RuleEngine.match_file.
C12_OptimizedAgreesWithBaseline ==
    (re_last.called /\ re_last.cache_before = <<>>)
        => re_last.opt = re_last.base

\* C13: the match cache never holds more than cache_size_limit entries, and
\* an insertion that found it full removed the entry inserted earliest.
C13_CacheBoundedFifo ==
    /\ Len(match_cache) <= cache_size_limit
    /\ (/\ re_last.called
        /\ ~re_last.hit
        /\ Len(re_last.cache_before) >= cache_size_limit)
       => LET before == re_last.cache_before
              after == re_last.cache_after
              gone == {k \in 1..Len(before) :
                          \A j \in 1..Len(after) : after[j].stamp # before[k].stamp}
          IN /\ Cardinality(gone) = 1
             /\ \A k \in gone : \A j \in 1..Len(before) :
                    before[k].stamp <= before[j].stamp

\* C13 witness: an insertion found the cache full and the cache holds
\* cache_size_limit entries after it.
C13_Witness ==
    /\ re_last.called
    /\ ~re_last.hit
    /\ Len(re_last.cache_before) = cache_size_limit
    /\ Len(re_last.cache_after) = cache_size_limit
    /\ \E j \in 1..Len(re_last.cache_after) :
          re_last.cache_after[j].key = re_last.file.path

\* C14: once the path is known to exist, the protected-root, system-file-name
\* and whitelisted-extension checks are all made on the resolved path: the
\* answer for a path is the answer for the path it resolves to.
C14_ChecksOnResolvedPath ==
    (sec_pc = "done" /\ path_exists(sec_path, sec_cwd))
    => sec_result =
          is_safe_to_delete([rooted |-> TRUE, parts |-> path_resolve(sec_path, sec_cwd)],
                            sec_whitelist, sec_protected, sec_cwd)

(***************************************************************************)
(* Claims about CoreScanner.scan and the scan worker, checked under        *)
(* SpecScan                                                                *)
(***************************************************************************)

\* The entries <<target, position>> of a sequence of results, in order.
RECURSIVE EntriesOf(_)
EntriesOf(results) ==
    IF results = <<>> THEN <<>>
    ELSE LET r == results[1]
         IN [k \in 1..Len(r.files) |-> <<r.target, r.files[k]>>] \o EntriesOf(Tail(results))

\* The entries the scan of a target list reports when nothing cancels it:
\* for each enabled target that exists, in order, the entries of its tree
\* that are not skipped.
RECURSIVE FullScanEntries(_, _)
FullScanEntries(targets, t) ==
    IF t > Len(targets) THEN <<>>
    ELSE LET tg == targets[t]
             kept == SelectSeq([k \in 1..Len(tg.entries) |-> k],
                               LAMBDA k : ~tg.entries[k].skip)
             own == IF tg.enabled /\ tg.exists
                    THEN [k \in 1..Len(kept) |-> <<t, kept[k]>>] ELSE <<>>
         IN own \o FullScanEntries(targets, t + 1)

IsPrefix(a, b) == Len(a) <= Len(b) /\ SubSeq(b, 1, Len(a)) = a

\* C15: when a cancel request has ended a traversal part-way, the entries the
\* scan reports (those yielded by the scanner, and those kept in the
\* controller's results), in order, are a prefix of the entries the same scan
\* reports when it is not cancelled.
C15_CancelledScanIsPrefix ==
    sc_cut =>
        /\ IsPrefix(EntriesOf(sc_yielded), FullScanEntries(sc_targets, 1))
        /\ IsPrefix(EntriesOf(sc_results), FullScanEntries(sc_targets, 1))

\* The targets that are enabled, in list order.
EnabledTargets(targets) ==
    SelectSeq([t \in 1..Len(targets) |-> t], LAMBDA t : targets[t].enabled)

\* C16: the results come in target order, at most one per enabled target and
\* none for a disabled one; the result of an enabled target whose root is
\* missing carries an error and no file, that of any other target no error;
\* and a scan that nothing cancels has, once its loop is over, yielded exactly
\* one result for every enabled target, those after a missing root included.
C16_OneResultPerEnabledTarget ==
    LET got == [k \in 1..Len(sc_yielded) |-> sc_yielded[k].target]
        want == EnabledTargets(sc_targets)
    IN /\ IsPrefix(got, want)
       /\ \A k \in 1..Len(sc_yielded) :
             /\ sc_yielded[k].error = ~sc_targets[sc_yielded[k].target].exists
             /\ sc_yielded[k].error => sc_yielded[k].files = <<>>
       /\ (sc_cancel_pc = "none"
              /\ sc_pc \in {"after", "to_idle", "set_latch", "publish", "done"})
          => got = want

\* C16 witness: a finished scan, not cancelled, of a missing root followed by
\* a directory: two results, the first with an error, the second with files.
C16_Witness ==
    /\ sc_pc = "done"
    /\ sc_cancel_pc = "none"
    /\ Len(sc_targets) = 2
    /\ ~sc_targets[1].exists /\ sc_targets[1].enabled
    /\ Len(sc_yielded) = 2
    /\ sc_yielded[1].error
    /\ sc_yielded[2].files # <<>>

\* The places of the events of one type in the sequence published.
EventsAt(type) == {k \in 1..Len(sc_events) : sc_events[k].type = type}

\* C17: scan-started is published once and before every other scan event;
\* when the scan is over a scan-completed has been published, after every
\* scan-progress; and a scan that nothing cancelled has published one
\* scan-progress for each target it yielded a result for, in target order.
C17_ScanEventOrder ==
    /\ sc_events # <<>> => EventsAt("scan_started") = {1}
    /\ sc_pc = "done" =>
          /\ EventsAt("scan_completed") # {}
          /\ \A p \in EventsAt("scan_progress") :
                \A c \in EventsAt("scan_completed") : p < c
    /\ (sc_pc = "done" /\ sc_cancel_pc = "none") =>
          LET prog == SelectSeq(sc_events, LAMBDA e : e.type = "scan_progress")
          IN [k \in 1..Len(prog) |-> prog[k].target]
                = [k \in 1..Len(sc_yielded) |-> sc_yielded[k].target]

(***************************************************************************)
(* Claims about scan_single_target, checked under SpecTree                 *)
(***************************************************************************)

\* The sum of the sizes of the files of a tree.
RECURSIVE FileSizeSum(_, _)
FileSizeSum(tree, k) ==
    IF k = 0 THEN 0
    ELSE (IF tree[k].is_dir THEN 0 ELSE tree[k].size) + FileSizeSum(tree, k - 1)

\* C21: scanning a directory tree of N files (at any depth) and M
\* subdirectories returns a ScanResult with file_count = N, dir_count = M
\* and total_size the sum of the sizes of the N files, with the baseline
\* scanner and with the optimized scanner.
C21_CountsAndSizeOfTree ==
    tr_pc = "done" =>
        /\ tr_result.file_count = Cardinality({k \in 1..Len(tr_tree) : ~tr_tree[k].is_dir})
        /\ tr_result.dir_count = Cardinality({k \in 1..Len(tr_tree) : tr_tree[k].is_dir})
        /\ tr_result.total_size = FileSizeSum(tr_tree, Len(tr_tree))

(***************************************************************************)
(* Claims about classification, checked under SpecClassify                 *)
(***************************************************************************)

\* How often a file descriptor occurs in a collection.
Occurrences(seq, d) == Cardinality({k \in 1..Len(seq) : seq[k] = d})

\* The collection the claim assigns to a file: the tier of the first enabled
\* rule of the list that matches it, Unmatched when there is none.
C22_Expected(f) ==
    LET hits == {i \in 1..Len(cf_rules) :
                    cf_rules[i].enabled /\ rule_matches(cf_rules[i], f)}
    IN IF hits = {} THEN "UNMATCHED"
       ELSE cf_tiers[CHOOSE i \in hits : \A j \in hits : i <= j]

\* C22: once the results of a scan have been handled, every non-directory
\* file descriptor of every successful ScanResult occurs exactly once in the
\* Safe, Review, System and Unmatched collections taken together, namely in
\* the collection of the tier of the first matching rule, or in Unmatched
\* when no rule matches; directories, and anything else, occur in none.
C22_EachFileInOneBucket ==
    /\ \A r \in 1..cf_k : \A p \in 1..Len(cf_results[r].files) :
          LET e == cf_results[r].files[p]
          IN \A b \in Buckets :
                Occurrences(cf_matched[b], <<r, p>>) =
                    IF ~cf_results[r].error /\ ~e.is_dir /\ b = C22_Expected(e.info)
                    THEN 1 ELSE 0
    /\ \A b \in Buckets : \A k \in 1..Len(cf_matched[b]) :
          /\ cf_matched[b][k][1] \in 1..cf_k
          /\ cf_matched[b][k][2] \in 1..Len(cf_results[cf_matched[b][k][1]].files)

\* C22 witness: the scan is over, and its files are spread over a matched
\* collection and Unmatched, the second rule of the list deciding for one.
C22_Witness ==
    /\ cf_k = Len(cf_results)
    /\ cf_matched["UNMATCHED"] # <<>>
    /\ cf_matched["L1_SAFE"] # <<>>
    /\ cf_matched["L3_SYSTEM"] # <<>>

(***************************************************************************)
(* Claims about EventBus, checked under SpecBus                            *)
(***************************************************************************)

\* C23: when a publish call has ended, the callbacks it invoked are exactly
\* the callbacks that were subscribed to the event's type when the call
\* began, each once and in subscription order, whether or not one of them
\* raised; while it runs, the callbacks invoked are the first ones of that
\* list, in order.
C23_PublishInvokesAllInOrder ==
    /\ eb_last.done => eb_last.invoked = eb_last.subscribers
    /\ ~eb_last.done =>
          /\ Len(eb_last.invoked) = eb_i - 1
          /\ eb_last.invoked = SubSeq(eb_last.subscribers, 1, eb_i - 1)

(***************************************************************************)
(* Claims about the events and the state seen by the caller of a start     *)
(* call, checked under SpecCtl                                             *)
(***************************************************************************)

\* C24: whenever a start_analysis call has returned True, an
\* analysis-started event has been published for the analysis it started
\* (and so delivered to the subscribers, publish being synchronous).
C24_AnalysisStartedPublished ==
    \A c \in Callers :
        (/\ callers[c].op = "start"
         /\ callers[c].kind = "analysis"
         /\ callers[c].ret = "true")
        => \E k \in 1..Len(workers[callers[c].id].evs) :
              workers[callers[c].id].evs[k] = "started"

\* C29: from the moment start_scan or start_analysis has returned True until
\* the caller does anything else, a read of current_state returns Scanning
\* or Analyzing respectively.
C29_StateAfterStartReturns ==
    \A c \in Callers :
        (/\ callers[c].op = "start"
         /\ callers[c].kind \in {"scan", "analysis"}
         /\ callers[c].ret = "true"
         /\ callers[c].pc = "ready")
        => state = StateOf(callers[c].kind)

(***************************************************************************)
(* Claims about preview_clean, checked under SpecPreview                   *)
(***************************************************************************)

C26_LoadNeverAborts ==
    ld_pc = "done" =>
        /\ ~ld_raised
        /\ ld_config.kind \in {"missing", "unparseable", "not_object"} =>
              ld_rules = DefaultRules
        /\ ld_config.kind = "object" =>
              ld_rules = SelectSeq(ld_config.rules, LAMBDA e : e \in {"good_a", "good_b"})

(***************************************************************************)
(* Claims about _merge_clusters, checked under SpecMerge                   *)
(***************************************************************************)

\* The merged cluster that holds the cluster at position k of the input.
MergedOf(k) ==
    CHOOSE i \in 1..Len(mg_merged) :
        \E m \in 1..Len(mg_merged[i].members) : mg_merged[i].members[m] = k

RECURSIVE SizeSum(_, _)
SizeSum(seq, k) == IF k = 0 THEN 0 ELSE seq[k].total_size + SizeSum(seq, k - 1)

\* Every cluster of the input is in exactly one merged cluster, clusters
\* with equal names (ignoring case) are in the same one, and the sizes of
\* the merged clusters add up to the sizes of the input clusters.
MergePartitionAndSize ==
    /\ \A k \in 1..Len(mg_clusters) :
          Cardinality({<<i, m>> \in (1..Len(mg_merged)) \X (1..MaxClusters + 1) :
                          /\ m <= Len(mg_merged[i].members)
                          /\ mg_merged[i].members[m] = k}) = 1
    /\ \A j, k \in 1..Len(mg_clusters) :
          str_lower(mg_clusters[j].app_name) = str_lower(mg_clusters[k].app_name)
              => MergedOf(j) = MergedOf(k)
    /\ SizeSum(mg_merged, Len(mg_merged)) = SizeSum(mg_clusters, Len(mg_clusters))

\* C27 as stated: after merging, clusters with equal names (ignoring case)
\* are in a single cluster, a cluster whose name similarity to an earlier
\* cluster of the list exceeds 0.8 is in the same merged cluster as that
\* earlier cluster, and the total size is conserved.
C27_SimilarToAnyEarlierMerged ==
    mg_pc = "done" =>
        /\ MergePartitionAndSize
        /\ \A j, k \in 1..Len(mg_clusters) :
              (j < k /\ similar(str_lower(mg_clusters[k].app_name),
                                str_lower(mg_clusters[j].app_name)))
                  => MergedOf(k) = MergedOf(j)

\* C27 amended: after merging, clusters with equal names (ignoring case) are
\* in a single cluster; a cluster is in the first merged cluster, in order
\* of creation, whose key (the lower-case name of the cluster that created
\* it) has a similarity above 0.8 with its lower-case name, and creates a
\* merged cluster of its own when there is none; the total size is
\* conserved.
C27_SimilarToEarlierKeyMerged ==
    mg_pc = "done" =>
        /\ MergePartitionAndSize
        /\ \A k \in 1..Len(mg_clusters) :
              LET n == str_lower(mg_clusters[k].app_name)
                  i == MergedOf(k)
              IN /\ mg_merged[i].members[1] = k \/ similar(n, mg_merged[i].key)
                 /\ mg_merged[i].members[1] = k => mg_merged[i].key = n
                 /\ \A h \in 1..(i - 1) : ~similar(n, mg_merged[h].key)
        /\ \A i \in 1..Len(mg_merged) :
              \A m \in 1..(Len(mg_merged[i].members) - 1) :
                  mg_merged[i].members[m] < mg_merged[i].members[m + 1]

\* C27 witness: three clusters were merged into two: the second into the
\* first by similarity, the third, similar to the second only, on its own.
C27_Witness ==
    /\ mg_pc = "done"
    /\ Len(mg_clusters) = 3
    /\ Len(mg_merged) = 2
    /\ mg_clusters[1].app_name = "MyApp"
    /\ mg_clusters[2].app_name = "myapp1"
    /\ mg_clusters[3].app_name = "myapp123"
    /\ mg_merged[1].total_size = mg_clusters[1].total_size + mg_clusters[2].total_size

(***************************************************************************)
(* Claims about ScanCache, checked under SpecCache                         *)
(***************************************************************************)

\* C28: at any moment fewer than FLUSH_EVERY (100 in the source, so at most
\* 99) entries recorded through ScanCache.set are not yet written to the
\* cache file.
C28_FewUnsavedEntries ==
    Cardinality(ch_unsaved) <= FLUSH_EVERY - 1

(***************************************************************************)
(* Claims about a scan that follows a cancelled one, checked under         *)
(* SpecScanAgain                                                            *)
(***************************************************************************)

\* C30: a scan started on a controller whose earlier scan was cancelled, and
\* for which cancel_scan is not called again, has yielded one result for
\* every enabled target once its loop is over.
C30_NextScanProcessesAllTargets ==
    (/\ sc_cancel_pc = "none"
     /\ sc_pc \in {"after", "to_idle", "set_latch", "publish", "done"})
    => [k \in 1..Len(sc_yielded) |-> sc_yielded[k].target]
           = EnabledTargets(sc_targets)

(***************************************************************************)
(* Claims about the confirmation of a clean, checked under SpecSession     *)
(***************************************************************************)

\* The start_clean calls of the log that returned True.
StartedCleans == {k \in 1..Len(cs_log) : cs_log[k].op = "start_clean" /\ cs_log[k].ret}

\* C31: one confirm_clean call authorizes at most one clean: between two
\* start_clean calls with require_confirmation=True that both returned True
\* there is a confirm_clean call.
C31_OneCleanPerConfirmation ==
    \A i \in StartedCleans, j \in StartedCleans :
       (i < j /\ cs_log[i].req /\ cs_log[j].req)
       => \E k \in (i + 1)..(j - 1) : cs_log[k].op = "confirm_clean"

\* The greatest call before call j that is of the operation, 0 when none is.
LastBefore(j, op) ==
    LET ks == {k \in 1..(j - 1) : cs_log[k].op = op}
    IN IF ks = {} THEN 0 ELSE CHOOSE k \in ks : \A m \in ks : m <= k

\* The list given to the most recent preview_clean call that precedes the
\* most recent confirm_clean call before call j; empty when there is none.
PreviewedFor(j) ==
    LET c == LastBefore(j, "confirm_clean")
        p == IF c = 0 THEN 0 ELSE LastBefore(c, "preview_clean")
    IN IF p = 0 THEN {} ELSE cs_log[p].files

\* C35: a clean started with require_confirmation=True deletes only files of
\* the list given to the most recent preview_clean call that precedes the
\* confirmation.
C35_DeletesOnlyPreviewedFiles ==
    \A j \in StartedCleans :
       cs_log[j].req => cs_log[j].deleted \subseteq PreviewedFor(j)

(***************************************************************************)
(* Claims about the result of a clean, checked under SpecCtl               *)
(***************************************************************************)

\* CleanerExecutor.clean raised in the clean worker w: clean-started is the
\* only event of a clean that ends by an exception.
CleanEngineRaised(w) ==
    workers[w].pc \notin {"none", "engine"} /\ workers[w].evs = <<"started">>

\* CleanController._result holds the result of the clean of worker w: the
\* worker stores it when clean returns, and its except branch stores a failed
\* result as its last statement.
CleanResultStored(w) ==
    IF CleanEngineRaised(w) THEN workers[w].pc = "done"
    ELSE workers[w].pc \notin {"none", "engine"}

\* No other start_clean call has cleared the result and the completion event
\* since the clean of worker w was started.
NoLaterClean(w) ==
    /\ \A v \in CallIds \ {w} : workers[v].kind # "clean"
    /\ \A c \in Callers :
          (callers[c].op = "start" /\ callers[c].kind = "clean")
          => callers[c].pc \notin {"trans", "handler"}

\* C32: whenever the completion event of a clean is set, so that
\* wait_for_completion returns True, the controller holds a result for that
\* clean, on the worker's success path and on its failure path.
C32_ResultWhenCompleted ==
    \A w \in CallIds :
       (/\ workers[w].kind = "clean"
        /\ workers[w].latched
        /\ latch["clean"]
        /\ NoLaterClean(w))
       => CleanResultStored(w)

(***************************************************************************)
(* Claims about the terminal event of a scan, checked under SpecScan       *)
(***************************************************************************)

\* C33: the subscribers receive at most one terminal event of a scan,
\* scan-completed or scan-failed, and exactly one once the scan is over.
C33_OneTerminalEvent ==
    LET terminal == EventsAt("scan_completed") \cup EventsAt("scan_failed")
    IN /\ Cardinality(terminal) <= 1
       /\ sc_pc = "done" => Cardinality(terminal) = 1

(***************************************************************************)
(* Claims about the reach of cancel_scan, checked under SpecScan           *)
(***************************************************************************)

\* C34: cancel_scan, the only call that sets the cancel flag here, leaves it
\* set for no operation of another controller: the flag is never set while
\* a clean is the operation in progress.
C34_CancelReachesOnlyItsScan ==
    cancel_flag => state # "cleaning"

(***************************************************************************)
(* Claims about the order of the terminal event and the completion event,  *)
(* checked under SpecCtl                                                   *)
(***************************************************************************)

\* C36: when a worker has set the completion event of its controller, a
\* terminal event of its operation (completed or failed) has already been
\* published.
C36_TerminalEventBeforeLatch ==
    \A w \in CallIds :
       workers[w].latched =>
          ("completed" \in Range(workers[w].evs) \/ "failed" \in Range(workers[w].evs))

(***************************************************************************)
(* Claims about the CleanResult and the terminal event of a clean, checked *)
(* under SpecClean                                                         *)
(***************************************************************************)

\* The types of the clean events published.
CleanEventTypes == {cl_events[k].type : k \in 1..Len(cl_events)}

\* C37: a clean of a non-empty list that has returned has published
\* clean_completed exactly when the CleanResult it returns has success True,
\* and clean_failed exactly when it has success False.
C37_TerminalEventMatchesSuccess ==
    (cl_pc = "returned" /\ Len(cl_files) > 0)
    => /\ ("clean_completed" \in CleanEventTypes) <=> cl_result.success
       /\ ("clean_failed" \in CleanEventTypes) <=> ~cl_result.success

\* The sum of the sizes of the files that the first k entries of the log
\* record as deleted.
RECURSIVE DeletedSize(_)
DeletedSize(k) ==
    IF k = 0 THEN 0
    ELSE (IF cl_log[k].deleted THEN cl_files[cl_log[k].file] ELSE 0) + DeletedSize(k - 1)

\* No iteration of the clean has seen a cancellation.
CleanNotCancelled ==
    \A e \in 1..Len(cl_result.errors) : cl_result.errors[e].kind # "cancelled"

\* C38: while a clean has not been cancelled, files_deleted + skipped + the
\* number of entries of errors is the number of files handled so far, which
\* is the length of the list once the loop is over, and total_size is the
\* sum of the sizes of the files counted in files_deleted.
C38_CountsAddUp ==
    CleanNotCancelled
    => /\ cl_result.files_deleted + cl_result.skipped + Len(cl_result.errors) = cl_idx
       /\ cl_pc \in {"finish", "returned"} => cl_idx = Len(cl_files)
       /\ cl_result.files_deleted
             = Cardinality({k \in 1..Len(cl_log) : cl_log[k].deleted})
       /\ cl_result.total_size = DeletedSize(Len(cl_log))

\* C38 witness: a returned clean of three files, not cancelled, of which one
\* was deleted, one skipped and one failed.
C38_Witness ==
    /\ cl_pc = "returned"
    /\ CleanNotCancelled
    /\ Len(cl_files) = 3
    /\ cl_result.files_deleted = 1
    /\ cl_result.skipped = 1
    /\ Len(cl_result.errors) = 1

(***************************************************************************)
(* Claims about add_rule and remove_rule, checked under SpecEdit           *)
(***************************************************************************)

\* C39: a match_file call made after an add_rule or a remove_rule returns,
\* without raising, the match that an engine just built with the current
\* rule list returns, for paths matched before the change as for others.
C39_MatchFollowsRuleList ==
    (ed_last.called /\ ed_last.edits > 0)
    => (~ed_last.raised /\ ed_last.opt = ed_last.fresh)

(***************************************************************************)
(* Claims about the construction of the singletons, checked under SpecNew  *)
(***************************************************************************)

\* C40: the threads that construct the class concurrently for the first time
\* all obtain the same instance, and each obtains it with its fields
\* initialised.
C40_SameInitialisedInstance ==
    \A t \in Callers, u \in Callers :
       (si_pc[t] = "done" /\ si_pc[u] = "done")
       => /\ si_got[t].id = si_got[u].id
          /\ si_got[t].id # 0
          /\ si_got[t].fields = Len(InstanceFields(si_class))

====
